---- MODULE Spec2Model ----
(***************************************************************************)
(* Chunked-upload ingestion pipeline of the video platform backend:        *)
(* upload session bookkeeping (models/UploadSession), the chunk intake     *)
(* handler (controllers/uploadController), the chunk commit worker         *)
(* (services/chunkProcessingService), the assembly worker                  *)
(* (services/fileAssemblyService), the Redis chunk index                   *)
(* (services/cacheService) and the RabbitMQ work bus                       *)
(* (services/queueService).  One upload session is followed from the       *)
(* moment initializeUpload has created its row.  Further specifications    *)
(* add cancelUpload and cleanupExpiredSessions, a killed worker process    *)
(* and a failing volume, and follow single initializeUpload and            *)
(* resumeUpload requests.                                                  *)
(***************************************************************************)
EXTENDS Integers, Sequences, FiniteSets, TLC

(* ------------------------------ bounds --------------------------------- *)

\* largest total_chunks of the session under study
MaxChunks == 2
\* number of chunk POST requests the clients make
MaxPosts == 2
\* concurrent handler invocations of the chunk_processing consumer
NumCommitWorkers == 2
\* concurrent handler invocations of the file_assembly consumer
NumAssemblyWorkers == 2
\* jobs published in the work-bus specification
MaxJobs == 2
\* cancelUpload and cleanupExpiredSessions requests made
MaxCleanups == 1
\* times the chunk worker process is killed
MaxCrashes == 1
\* largest small fileSize and chunkSize of an initializeUpload request
MaxSize == 3
\* longest file served by the range reader, in bytes
MaxFileLen == 3
\* videos rows created in the post-processing specification
MaxVideos == 5
\* totalChunks of the file the upload client sends
MaxClientChunks == 3

(* ------------------------ program constants ---------------------------- *)

\* "if (retryCount < 3)" in every consumer of queueService.ts
MaxRetries == 3

Pipelines == {"chunk_processing", "file_assembly", "video_processing"}

(* ------------------------- JavaScript values --------------------------- *)

\* A JavaScript number, NaN and null, as they travel through parseInt,
\* JSON.stringify / JSON.parse and the jsonb column.
Num(n) == [t |-> "number", v |-> n]
NaN == [t |-> "NaN", v |-> 0]
Null == [t |-> "null", v |-> 0]

DigitVal ==
  [c \in {"0", "1", "2", "3", "4", "5", "6", "7", "8", "9"} |->
     CASE c = "0" -> 0 [] c = "1" -> 1 [] c = "2" -> 2 [] c = "3" -> 3
       [] c = "4" -> 4 [] c = "5" -> 5 [] c = "6" -> 6 [] c = "7" -> 7
       [] c = "8" -> 8 [] c = "9" -> 9]

DigitChar ==
  [d \in 0..9 |->
     CASE d = 0 -> "0" [] d = 1 -> "1" [] d = 2 -> "2" [] d = 3 -> "3"
       [] d = 4 -> "4" [] d = 5 -> "5" [] d = 6 -> "6" [] d = 7 -> "7"
       [] d = 8 -> "8" [] d = 9 -> "9"]

\* Longest prefix of decimal digits of s, folded into a number; NaN when the
\* prefix is empty.
RECURSIVE ParseDigits(_, _, _)
ParseDigits(s, acc, seen) ==
  IF s = <<>> \/ Head(s) \notin DOMAIN DigitVal
    THEN (IF seen THEN Num(acc) ELSE NaN)
    ELSE ParseDigits(Tail(s), acc * 10 + DigitVal[Head(s)], TRUE)

\* parseInt(string): optional sign, then the digit prefix.  Strings are
\* sequences of one-character strings.
ParseInt(s) ==
  IF s # <<>> /\ Head(s) = "-"
    THEN LET r == ParseDigits(Tail(s), 0, FALSE)
         IN  IF r = NaN THEN NaN ELSE Num(0 - r.v)
    ELSE ParseDigits(s, 0, FALSE)

\* Number.prototype.toString() of a non-negative integer.
RECURSIVE NatToString(_)
NatToString(n) ==
  IF n < 10 THEN <<DigitChar[n]>>
            ELSE NatToString(n \div 10) \o <<DigitChar[n % 10]>>

\* JSON.parse(JSON.stringify(x)) of a number field: NaN is written as null.
JsonRoundTrip(x) == IF x.t = "NaN" THEN Null ELSE x

\* The relational operators applied to parseInt's result: every comparison
\* with NaN is false.
JsLess(x, n) == x.t = "number" /\ x.v < n
JsGreaterEq(x, n) == x.t = "number" /\ x.v >= n

(* ------------------------------ state ---------------------------------- *)

VARIABLES
  session,         \* the upload_sessions row of the session, or NoRow
  redisUp,         \* CacheService.isConnected
  redisSet,        \* members of the Redis set upload_chunks:{id}
  tempFiles,       \* chunks/temp_* files on disk (named by request number)
  chunkFiles,      \* chunks/{id}_chunk_{index} files: index value -> content
  uploadFile,      \* uploads/{filename}: whether it exists, and its blocks
  bus,             \* the nine RabbitMQ queues
  posted,          \* chunkIndex of every chunk request, in request order
  cw,              \* chunk_processing handler invocations
  aw,              \* file_assembly handler invocations
  videos,          \* rows of the videos table created by assembly
  assembled,       \* uploads/{filename} as it was when assembleFile returned
  completedReturns,\* updateChunkUploaded calls that returned status completed
  redisEverDown,   \* the Redis client has been disconnected at some time
  deliveries,      \* work bus: times each job was handed to a processor
  nextJob,         \* work bus: jobs published so far
  cl,              \* the cancelUpload / cleanupExpiredSessions invocation
  expired,         \* CURRENT_TIMESTAMP has passed the row's expires_at
  crashes,         \* times the worker process was killed
  request,         \* the HTTP request an upload route is about to handle
  response,        \* the answer of the last HTTP call
  queueUp,         \* QueueService.isConnected: the AMQP channel is open
  bufferFull,      \* the channel's write buffer is above its high-water mark
  videoStatus,     \* status of the videos rows that have left "processing"
  srv,             \* the server process and its video consumer's handlers
  client           \* the browser's uploadFileInChunks call

\* state of the HTTP handlers, of the AMQP channel and of the environment
handlerVars ==
  <<cl, expired, crashes, request, response, queueUp, bufferFull,
    videoStatus, srv, client>>

vars == <<session, redisUp, redisSet, tempFiles, chunkFiles, uploadFile, bus,
          posted, cw, aw, videos, assembled, completedReturns, redisEverDown,
          deliveries, nextJob, handlerVars>>

uploadVars == <<session, redisUp, redisSet, tempFiles, chunkFiles, uploadFile,
                posted, cw, aw, videos, assembled, completedReturns,
                redisEverDown, handlerVars>>

NoRow ==
  [status |-> "none", uploaded_chunks |-> {}, total_chunks |-> 0,
   file_size |-> 0, chunk_size |-> 0]
NoFile == [exists |-> FALSE, blocks |-> <<>>]
\* a file holding the given blocks
File(blocks) == [exists |-> TRUE, blocks |-> blocks]
NoMsg == [none |-> TRUE]

\* The server process after app.listen: the video consumer is registered and
\* none of its handler invocations is running.
ServerUp == [pc |-> "up", inflight |-> <<>>]

\* ChunkedUploadService.uploadFileInChunks has not been called.
NotCalled ==
  [pc |-> "init", totalChunks |-> 0, i |-> 0, activeUploads |-> 0,
   completedChunks |-> 0, uploadQueue |-> <<>>, status |-> "none"]
\* a block of zero bytes, as a file has where nothing was written
Hole == 0
\* no assembleFile call has returned yet
NotAssembled == [exists |-> FALSE, blocks |-> <<>>, total |-> 0]
\* a directory without entries
EmptyDir == [x \in {} |-> 0]

CommitWorkers == 1..NumCommitWorkers
AssemblyWorkers == 1..NumAssemblyWorkers

IdleCommit ==
  [pc |-> "idle", msg |-> NoMsg, total |-> 0, uploadedCount |-> 0,
   uploadedChunks |-> {}, status |-> "none", cacheMiss |-> FALSE]

IdleAssembly ==
  [pc |-> "idle", msg |-> NoMsg, total |-> 0, i |-> 0, pos |-> 0,
   videoId |-> 0]

EmptyBus == [p \in Pipelines |-> [main |-> <<>>, retry |-> <<>>, dlq |-> <<>>]]

\* The row written by UploadSessionModel.create.  Sizes are counted in MiB.
CreatedSession(fileSize, chunkSize, total) ==
  [status |-> "pending", uploaded_chunks |-> {}, total_chunks |-> total,
   file_size |-> fileSize, chunk_size |-> chunkSize]

\* no cancelUpload or cleanupExpiredSessions call is running
IdleCleanup ==
  [pc |-> "idle", kind |-> "none", files |-> {}, status |-> "none",
   calls |-> 0, inflight |-> {}]
NoRequest == [route |-> "none"]
NoResponse == [code |-> 0, route |-> "none"]

\* handlers at rest, the clock before expires_at, the worker process alive
HandlersInit ==
  /\ cl = IdleCleanup
  /\ expired = FALSE
  /\ crashes = 0
  /\ request = NoRequest
  /\ response = NoResponse
  /\ queueUp = TRUE
  /\ bufferFull = FALSE
  /\ videoStatus = <<>>
  /\ srv = ServerUp
  /\ client = NotCalled

Init ==
  /\ session \in {CreatedSession(t, 1, t) : t \in 1..MaxChunks}
  /\ redisUp = TRUE
  /\ redisSet = {}
  /\ tempFiles = {}
  /\ chunkFiles = EmptyDir
  /\ uploadFile = NoFile
  /\ bus = EmptyBus
  /\ posted = <<>>
  /\ cw = [w \in CommitWorkers |-> IdleCommit]
  /\ aw = [a \in AssemblyWorkers |-> IdleAssembly]
  /\ videos = 0
  /\ assembled = NotAssembled
  /\ completedReturns = 0
  /\ redisEverDown = FALSE
  /\ deliveries = <<>>
  /\ nextJob = 0
  /\ HandlersInit

(* ----------------------------- work bus -------------------------------- *)

\* The DLQ copy is sent with {persistent: true} only: it has no retryCount
\* header.
NoRetryHeader == -1

\* channel.sendToQueue(queue, content, {headers: {retryCount}}).  On an open
\* channel the message is written out, also when the write buffer is full
\* (the call then returns false); on a closed channel the call throws and
\* nothing is sent.
SendToQueue(b, p, q, job, rc) ==
  IF queueUp
    THEN [b EXCEPT ![p][q] = Append(@, [job |-> job, retryCount |-> rc])]
    ELSE b

\* publishVideoJob / publishChunkJob / publishFileAssemblyJob: the effect
\* on the queues.
Publish(b, p, job) == SendToQueue(b, p, "main", job, 0)

\* ... and the boolean they return: false when the service is not connected,
\* when sendToQueue returned false and when it threw.
PublishReturns == queueUp /\ ~bufferFull

\* the comparison of a consumer that retries once more than it should
RetryAllowedOffByOne(rc) == rc <= MaxRetries

\* if (retryCount < 3)
RetryAllowed(rc) == rc < MaxRetries

\* The catch block of a consumer that republishes with the retryCount it
\* was handed.
OnProcessorErrorSameCount(b, p, m) ==
  IF RetryAllowed(m.retryCount)
    THEN SendToQueue(b, p, "retry", m.job, m.retryCount)
    ELSE SendToQueue(b, p, "dlq", m.job, NoRetryHeader)

\* The catch block of a consumer that acks without republishing.
OnProcessorErrorDrop(b, p, m) == b

\* The catch block of a consumer callback: republish to the retry queue with
\* retryCount + 1 while retryCount < 3, else publish to the DLQ; the
\* delivered message is acked either way.
OnProcessorError(b, p, m) ==
  IF RetryAllowed(m.retryCount)
    THEN SendToQueue(b, p, "retry", m.job, m.retryCount + 1)
    ELSE SendToQueue(b, p, "dlq", m.job, NoRetryHeader)

\* The message a consumer of queue q of pipeline p is handed next.
Dequeue(b, p, q) == [b EXCEPT ![p][q] = Tail(@)]

(* --------------------------- file helpers ------------------------------ *)

Exists(f, k) == k \in DOMAIN f

\* fs.rename / fs.writeFile onto name k: the name now resolves to content c,
\* whatever it resolved to before.
PutFile(f, k, c) == [x \in DOMAIN f \cup {k} |-> IF x = k THEN c ELSE f[x]]

\* fs.unlink
RemoveFile(f, k) == [x \in DOMAIN f \ {k} |-> f[x]]

\* write(2) of one block at offset pos (0-based) through a descriptor whose
\* file may have been truncated under it: the gap reads as zeros.
WriteAt(file, pos, c) ==
  LET old == file.blocks
      len == IF Len(old) > pos + 1 THEN Len(old) ELSE pos + 1
  IN  File([k \in 1..len |->
              IF k = pos + 1 THEN c
              ELSE IF k <= Len(old) THEN old[k] ELSE Hole])

(* --------------------------- chunk intake ------------------------------ *)

\* chunkIndex form fields the clients send: every valid index, the first
\* index past the end, a non-numeric string and a negative number.
IndexStrings ==
  {NatToString(i) : i \in 0..MaxChunks} \cup {<<"x">>, <<"-", "1">>}

Rejected == [t |-> "rejected", v |-> 0]

\* res.status(code).json(...) of uploadChunk; status is "queued" in the body
\* of the 200 answer.
ChunkAnswer(code, status) ==
  [code |-> code, route |-> "chunk", status |-> status]

\* UploadController.uploadChunk, for an authenticated request of the
\* session's owner with all fields present.  multer has stored the part as a
\* temp file before the callback runs; request number n names that file and
\* stands for its content.  A rejected request leaves its temp file behind.
\* findById and publishChunkJob are taken as one step: a status change
\* between them has the effect of one right after the publish.  When
\* publishChunkJob returns false the temp file is unlinked and the answer is
\* 500.
UploadChunk(str) ==
  /\ Len(posted) < MaxPosts
  /\ LET n == Len(posted) + 1
         chunkIndexNum == ParseInt(str)
         accepted ==
           /\ session # NoRow
           /\ session.status \notin {"completed", "failed"}
           /\ ~(JsLess(chunkIndexNum, 0)
                  \/ JsGreaterEq(chunkIndexNum, session.total_chunks))
         job == [chunkIndex |-> JsonRoundTrip(chunkIndexNum), temp |-> n]
         jobQueued == PublishReturns
     IN  IF accepted
           THEN /\ bus' = Publish(bus, "chunk_processing", job)
                /\ tempFiles' = IF jobQueued THEN tempFiles \cup {n}
                                             ELSE tempFiles
                /\ posted' = Append(posted, IF jobQueued THEN job.chunkIndex
                                                         ELSE Rejected)
                /\ response' = IF jobQueued THEN ChunkAnswer(200, "queued")
                                            ELSE ChunkAnswer(500, "error")
           ELSE /\ bus' = bus
                /\ tempFiles' = tempFiles \cup {n}
                /\ posted' = Append(posted, Rejected)
                /\ response' = ChunkAnswer(IF session = NoRow THEN 404
                                                              ELSE 400,
                                           "error")
  /\ UNCHANGED <<session, redisUp, redisSet, chunkFiles, uploadFile, cw, aw,
                 videos, assembled, completedReturns, redisEverDown,
                 deliveries, nextJob, cl, expired, crashes, request, queueUp,
                 bufferFull,
                 videoStatus, srv, client>>

(* ------------------------- Redis connection ---------------------------- *)

\* client.on("error"): isConnected = false
RedisError ==
  /\ redisUp
  /\ redisUp' = FALSE
  /\ redisEverDown' = TRUE
  /\ UNCHANGED <<session, redisSet, tempFiles, chunkFiles, uploadFile, bus,
                 posted, cw, aw, videos, assembled, completedReturns,
                 deliveries, nextJob, handlerVars>>

\* client.on("connect"): isConnected = true
RedisConnect ==
  /\ ~redisUp
  /\ redisUp' = TRUE
  /\ UNCHANGED <<session, redisSet, tempFiles, chunkFiles, uploadFile, bus,
                 posted, cw, aw, videos, assembled, completedReturns,
                 redisEverDown, deliveries, nextJob, handlerVars>>

\* CacheService.sadd / scard / smembers / del: no-ops answering 0 / [] while
\* disconnected.
Sadd(set, values) == IF redisUp THEN set \cup values ELSE set
Scard(set) == IF redisUp THEN Cardinality(set) ELSE 0
Smembers(set) == IF redisUp THEN set ELSE {}
Del(set) == IF redisUp THEN {} ELSE set

(* ------------------------ chunk commit worker -------------------------- *)

\* The consumer callback's catch block for handler invocation w: the message
\* goes to the retry queue or the DLQ, is acked, and the invocation ends.
CommitFail(w) ==
  /\ bus' = OnProcessorError(bus, "chunk_processing",
                             [job |-> cw[w].msg.job,
                              retryCount |-> cw[w].msg.retryCount])
  /\ cw' = [cw EXCEPT ![w] = IdleCommit]

\* After updateChunkUploaded returned a session image with the given status:
\* publish the assembly job when it is completed, then ack.
CommitReturn(w, status, b) ==
  /\ completedReturns' =
       IF status = "completed" THEN completedReturns + 1 ELSE completedReturns
  /\ bus' = IF status = "completed"
              THEN Publish(b, "file_assembly", [sessionId |-> 1])
              ELSE b
  /\ cw' = [cw EXCEPT ![w] = IdleCommit]

\* consumeChunkJobs callback, up to processChunk's fs.rename of the temp
\* file to chunks/{id}_chunk_{chunkIndex}.
CommitRename(w) ==
  /\ queueUp
  /\ cw[w].pc = "idle"
  /\ bus["chunk_processing"].main # <<>>
  /\ LET m == Head(bus["chunk_processing"].main)
         b == Dequeue(bus, "chunk_processing", "main")
     IN  IF m.job.temp \in tempFiles
           THEN /\ tempFiles' = tempFiles \ {m.job.temp}
                /\ chunkFiles' = PutFile(chunkFiles, m.job.chunkIndex,
                                         m.job.temp)
                /\ cw' = [cw EXCEPT ![w] = [IdleCommit EXCEPT
                                             !.pc = "findById", !.msg = m]]
                /\ bus' = b
           ELSE /\ bus' = OnProcessorError(b, "chunk_processing", m)
                /\ UNCHANGED <<tempFiles, chunkFiles, cw>>
  /\ UNCHANGED <<session, redisUp, redisSet, uploadFile, posted, aw, videos,
                 assembled, completedReturns, redisEverDown, deliveries,
                 nextJob, handlerVars>>

\* initializeRedisChunks: seed the Redis set with the row's uploaded_chunks.
\* chunk.toString() throws on a null element; the error is caught and logged
\* and nothing is added.
InitializeRedisChunks(set, existingChunks) ==
  IF existingChunks = {} \/ Null \in existingChunks
    THEN set
    ELSE Sadd(set, {NatToString(c.v) : c \in existingChunks})

\* updateChunkUploaded: findById, then initializeRedisChunks with the row
\* just read.  A null chunkIndex makes chunkIndex.toString() throw next, and
\* the catch block runs the fallback.
CommitFindById(w) ==
  /\ cw[w].pc = "findById"
  /\ IF session = NoRow
       THEN /\ CommitFail(w)
            /\ UNCHANGED redisSet
       ELSE /\ redisSet' = InitializeRedisChunks(redisSet,
                                                 session.uploaded_chunks)
            /\ cw' = [cw EXCEPT ![w].total = session.total_chunks,
                                 ![w].cacheMiss = ~redisUp,
                                 ![w].pc =
                                   IF cw[w].msg.job.chunkIndex = Null
                                     THEN "fallback" ELSE "sadd"]
            /\ UNCHANGED bus
  /\ UNCHANGED <<session, redisUp, tempFiles, chunkFiles, uploadFile, posted,
                 aw, videos, assembled, completedReturns, redisEverDown,
                 deliveries, nextJob, handlerVars>>

\* cacheService.sadd(redisKey, chunkIndex.toString()) and expire (the TTL is
\* not modelled: no key outlives 24 h here).
CommitSadd(w) ==
  /\ cw[w].pc = "sadd"
  /\ redisSet' = Sadd(redisSet, {NatToString(cw[w].msg.job.chunkIndex.v)})
  /\ cw' = [cw EXCEPT ![w].pc = "scard", ![w].cacheMiss = @ \/ ~redisUp]
  /\ UNCHANGED <<session, redisUp, tempFiles, chunkFiles, uploadFile, bus,
                 posted, aw, videos, assembled, completedReturns,
                 redisEverDown, deliveries, nextJob, handlerVars>>

\* isCompleted = uploadedCount >= session.total_chunks
IsCompleted(uploadedCount, total) == uploadedCount >= total

\* uploadedCount = await cacheService.scard(redisKey), isCompleted, status
CommitScard(w) ==
  /\ cw[w].pc = "scard"
  /\ cw' = [cw EXCEPT ![w].pc = "smembers",
                      ![w].cacheMiss = @ \/ ~redisUp,
                      ![w].uploadedCount = Scard(redisSet),
                      ![w].status =
                         IF IsCompleted(Scard(redisSet), cw[w].total)
                           THEN "completed" ELSE "uploading"]
  /\ UNCHANGED <<session, redisUp, redisSet, tempFiles, chunkFiles,
                 uploadFile, bus, posted, aw, videos, assembled,
                 completedReturns, redisEverDown, deliveries, nextJob,
                 handlerVars>>

\* uploadedChunks = smembers(redisKey).map(parseInt).sort()
CommitSmembers(w) ==
  /\ cw[w].pc = "smembers"
  /\ cw' = [cw EXCEPT ![w].pc = "update",
                      ![w].cacheMiss = @ \/ ~redisUp,
                      ![w].uploadedChunks =
                         {ParseInt(s) : s \in Smembers(redisSet)}]
  /\ UNCHANGED <<session, redisUp, redisSet, tempFiles, chunkFiles,
                 uploadFile, bus, posted, aw, videos, assembled,
                 completedReturns, redisEverDown, deliveries, nextJob,
                 handlerVars>>

\* The UPDATE of uploaded_chunks and status.  No row: updateChunkUploaded
\* returns null and processChunk throws.  Not completed: the image is
\* returned and the message acked.  Completed: cacheService.del follows.
CommitUpdate(w) ==
  /\ cw[w].pc = "update"
  /\ LET status == cw[w].status
         done == status = "completed"
     IN  IF session = NoRow
           THEN /\ CommitFail(w)
                /\ UNCHANGED <<session, completedReturns>>
           ELSE /\ session' = [session EXCEPT
                                 !.uploaded_chunks = cw[w].uploadedChunks,
                                 !.status = status]
                /\ IF done
                     THEN /\ cw' = [cw EXCEPT ![w].pc = "del"]
                          /\ UNCHANGED <<bus, completedReturns>>
                     ELSE CommitReturn(w, status, bus)
  /\ UNCHANGED <<redisUp, redisSet, tempFiles, chunkFiles, uploadFile,
                 posted, aw, videos, assembled, redisEverDown, deliveries,
                 nextJob, handlerVars>>

\* cacheService.del(redisKey), return of the completed image, publish, ack.
CommitDel(w) ==
  /\ cw[w].pc = "del"
  /\ redisSet' = Del(redisSet)
  /\ CommitReturn(w, cw[w].status, bus)
  /\ UNCHANGED <<session, redisUp, tempFiles, chunkFiles, uploadFile, posted,
                 aw, videos, assembled, redisEverDown, deliveries, nextJob,
                 handlerVars>>

\* The status updateChunkUploadedFallback computes.
FallbackStatus(uploadedChunks, total) ==
  IF Cardinality(uploadedChunks) = total THEN "completed" ELSE "uploading"

\* updateChunkUploadedFallback, entered from the catch block when
\* chunkIndex.toString() threw: one transaction under SELECT ... FOR UPDATE.
CommitFallback(w) ==
  /\ cw[w].pc = "fallback"
  /\ IF session = NoRow
       THEN /\ CommitFail(w)
            /\ UNCHANGED <<session, completedReturns>>
       ELSE LET uploadedChunks ==
                  session.uploaded_chunks \cup {cw[w].msg.job.chunkIndex}
                status == FallbackStatus(uploadedChunks, session.total_chunks)
            IN  /\ session' = [session EXCEPT
                                 !.uploaded_chunks = uploadedChunks,
                                 !.status = status]
                /\ CommitReturn(w, status, bus)
  /\ UNCHANGED <<redisUp, redisSet, tempFiles, chunkFiles, uploadFile,
                 posted, aw, videos, assembled, redisEverDown, deliveries,
                 nextJob, handlerVars>>

(* --------------------------- assembly worker --------------------------- *)

\* assembleFile's catch block and the consumer's: updateStatus(id, "failed")
\* and the message goes to the retry queue or the DLQ.
AsmFail(a) ==
  /\ aw[a].pc = "fail"
  /\ session' = IF session = NoRow THEN session
                ELSE [session EXCEPT !.status = "failed"]
  /\ bus' = OnProcessorError(bus, "file_assembly", aw[a].msg)
  /\ aw' = [aw EXCEPT ![a] = IdleAssembly]
  /\ UNCHANGED <<redisUp, redisSet, tempFiles, chunkFiles, uploadFile,
                 posted, cw, videos, assembled, completedReturns,
                 redisEverDown, deliveries, nextJob, handlerVars>>

\* The checks assembleFile makes on the row it loaded.
AssemblyPrecondition(row) ==
  /\ row # NoRow
  /\ row.status = "completed"
  /\ Cardinality(row.uploaded_chunks) = row.total_chunks

\* consumeFileAssemblyJobs callback up to createWriteStream(finalFilePath):
\* findById, the precondition checks, then the output file is opened with
\* flag "w", which creates it or truncates it to length zero.
AsmOpen(a) ==
  /\ queueUp
  /\ aw[a].pc = "idle"
  /\ bus["file_assembly"].main # <<>>
  /\ LET m == Head(bus["file_assembly"].main)
     IN  /\ bus' = Dequeue(bus, "file_assembly", "main")
         /\ IF AssemblyPrecondition(session)
              THEN /\ uploadFile' = File(<<>>)
                   /\ aw' = [aw EXCEPT ![a] =
                               [IdleAssembly EXCEPT
                                  !.pc = "read", !.msg = m,
                                  !.total = session.total_chunks]]
              ELSE /\ aw' = [aw EXCEPT ![a] =
                               [IdleAssembly EXCEPT !.pc = "fail", !.msg = m]]
                   /\ UNCHANGED uploadFile
  /\ UNCHANGED <<session, redisUp, redisSet, tempFiles, chunkFiles, posted,
                 cw, videos, assembled, completedReturns, redisEverDown,
                 deliveries, nextJob, handlerVars>>

\* The index the loop of assembleFile reads after index i.
NextChunk(i) == i + 1

\* Loop body, first half: fs.readFile(chunks/{id}_chunk_{i}) and
\* writeStream.write(chunkData), which lands at the stream's own offset.
AsmRead(a) ==
  /\ aw[a].pc = "read"
  /\ IF Exists(chunkFiles, Num(aw[a].i))
       THEN /\ uploadFile' = WriteAt(uploadFile, aw[a].pos,
                                     chunkFiles[Num(aw[a].i)])
            /\ aw' = [aw EXCEPT ![a].pc = "unlink", ![a].pos = @ + 1]
       ELSE /\ aw' = [aw EXCEPT ![a].pc = "fail"]
            /\ UNCHANGED uploadFile
  /\ UNCHANGED <<session, redisUp, redisSet, tempFiles, chunkFiles, bus,
                 posted, cw, videos, assembled, completedReturns,
                 redisEverDown, deliveries, nextJob, handlerVars>>

\* Loop body, second half: fs.unlink of the chunk file; then the next index,
\* or writeStream.end() after the last one.
AsmUnlink(a) ==
  /\ aw[a].pc = "unlink"
  /\ IF Exists(chunkFiles, Num(aw[a].i))
       THEN /\ chunkFiles' = RemoveFile(chunkFiles, Num(aw[a].i))
            /\ aw' = [aw EXCEPT
                        ![a].i = NextChunk(@),
                        ![a].pc = IF NextChunk(aw[a].i) < aw[a].total
                                    THEN "read" ELSE "create"]
       ELSE /\ aw' = [aw EXCEPT ![a].pc = "fail"]
            /\ UNCHANGED chunkFiles
  /\ UNCHANGED <<session, redisUp, redisSet, tempFiles, uploadFile, bus,
                 posted, cw, videos, assembled, completedReturns,
                 redisEverDown, deliveries, nextJob, handlerVars>>

\* The stream has finished; VideoModel.create inserts the videos row.
AsmCreateVideo(a) ==
  /\ aw[a].pc = "create"
  /\ videos' = videos + 1
  /\ aw' = [aw EXCEPT ![a].pc = "cleanup", ![a].videoId = videos + 1]
  /\ UNCHANGED <<session, redisUp, redisSet, tempFiles, chunkFiles,
                 uploadFile, bus, posted, cw, assembled, completedReturns,
                 redisEverDown, deliveries, nextJob, handlerVars>>

\* publishVideoJob, UploadSessionModel.delete (Redis key, then the row),
\* return of assembleFile, ack.
AsmCleanup(a) ==
  /\ aw[a].pc = "cleanup"
  /\ bus' = Publish(bus, "video_processing", [videoId |-> aw[a].videoId])
  /\ redisSet' = Del(redisSet)
  /\ session' = NoRow
  /\ assembled' = [exists |-> uploadFile.exists, blocks |-> uploadFile.blocks,
                   total |-> aw[a].total]
  /\ aw' = [aw EXCEPT ![a] = IdleAssembly]
  /\ UNCHANGED <<redisUp, tempFiles, chunkFiles, uploadFile, posted, cw,
                 videos, completedReturns, redisEverDown, deliveries,
                 nextJob, handlerVars>>

(* --------------------------- specification ----------------------------- *)

Next ==
  \/ \E str \in IndexStrings : UploadChunk(str)
  \/ RedisError
  \/ RedisConnect
  \/ \E w \in CommitWorkers :
       \/ CommitRename(w)
       \/ CommitFindById(w)
       \/ CommitSadd(w)
       \/ CommitScard(w)
       \/ CommitSmembers(w)
       \/ CommitUpdate(w)
       \/ CommitDel(w)
       \/ CommitFallback(w)
  \/ \E a \in AssemblyWorkers :
       \/ AsmOpen(a)
       \/ AsmRead(a)
       \/ AsmUnlink(a)
       \/ AsmCreateVideo(a)
       \/ AsmCleanup(a)
       \/ AsmFail(a)

Spec == Init /\ [][Next]_vars

(* ----------------------------- initialize ------------------------------ *)

\* 5 * 1024 * 1024 * 1024 bytes, in MiB
FileSizeLimit == 5 * 1024

\* Math.ceil(a / b) of integers, b # 0 (a negative zero is stored as 0).
CeilDiv(a, b) ==
  IF b > 0 THEN 0 - ((0 - a) \div b) ELSE 0 - (a \div (0 - b))

\* !value of a number field that may be absent
Falsy(value) == value = 0

\* The part of a path after its last "/".
RECURSIVE Basename(_)
Basename(s) ==
  IF \A k \in 1..Len(s) : s[k] # "/" THEN s
  ELSE Basename(Tail(s))

\* index of the last "." of s, 0 when there is none
LastDot(s) ==
  LET dots == {k \in 1..Len(s) : s[k] = "."}
  IN  IF dots = {} THEN 0 ELSE CHOOSE k \in dots : \A d \in dots : d <= k

\* path.extname of a writer that leaves out the dot.
ExtNameNoDot(filename) ==
  LET base == Basename(filename)
      dot == LastDot(base)
  IN  IF dot <= 1 \/ base = <<".", ".">> THEN <<>>
      ELSE SubSeq(base, dot + 1, Len(base))

\* path.extname(filename): from the last "." of the last path segment to
\* its end; empty when there is no "." or when the only one is the first
\* character of the segment.
ExtName(filename) ==
  LET base == Basename(filename)
      dot == LastDot(base)
  IN  IF dot <= 1 \/ base = <<".", ".">> THEN <<>>
      ELSE SubSeq(base, dot, Len(base))

\* uuidv4(): the server-chosen part of the stored filename.
Uuid == <<"u", "u", "i", "d">>

\* initializeUpload of an authenticated caller: the required-field check,
\* the size limit, totalChunks, UploadSessionModel.create and the answer.
InitializeUpload ==
  /\ request.route = "init"
  /\ request' = NoRequest
  /\ LET fileSize == request.fileSize
         chunkSize == request.chunkSize
         sessionFilename == Uuid \o ExtName(request.filename)
     IN  IF request.filename = <<>> \/ Falsy(fileSize) \/ Falsy(chunkSize)
           THEN /\ response' = [code |-> 400, route |-> "init"]
                /\ UNCHANGED session
         ELSE IF fileSize > FileSizeLimit
           THEN /\ response' = [code |-> 400, route |-> "init"]
                /\ UNCHANGED session
         ELSE LET totalChunks == CeilDiv(fileSize, chunkSize)
              IN  /\ session' = CreatedSession(fileSize, chunkSize,
                                               totalChunks)
                  /\ response' = [code |-> 201, route |-> "init",
                                  filename |-> sessionFilename,
                                  totalChunks |-> totalChunks,
                                  chunkSize |-> chunkSize,
                                  uploadedChunks |-> {}]
  /\ UNCHANGED <<redisUp, redisSet, tempFiles, chunkFiles, uploadFile, bus,
                 posted, cw, aw, videos, assembled, completedReturns,
                 redisEverDown, deliveries, nextJob, cl, expired, crashes, queueUp,
                 bufferFull,
                 videoStatus, srv, client>>

\* fileSize and chunkSize values of the request bodies
FileSizes ==
  (-1..MaxSize) \cup {FileSizeLimit - 1, FileSizeLimit, FileSizeLimit + 1}
ChunkSizes == -2..MaxSize

\* filename values of the request bodies: absent, and names with one, two or
\* no extension, a dot file, a trailing dot and a dotted directory.
Filenames ==
  {<<>>,
   <<"a", ".", "m", "p", "4">>,
   <<"a", ".", "t", ".", "g", "z">>,
   <<"a">>,
   <<".", "a">>,
   <<"a", ".">>,
   <<"d", ".", "d", "/", "a">>}

(* ------------------------------- resume -------------------------------- *)

\* session.uploaded_chunks.includes(i)
Includes(uploadedChunks, i) == Num(i) \in uploadedChunks

\* The loop of resumeUpload from index i on: the indices not included, in
\* the order the loop pushes them.
RECURSIVE MissingFrom(_, _)
MissingFrom(row, i) ==
  IF i < row.total_chunks
    THEN (IF Includes(row.uploaded_chunks, i) THEN <<>> ELSE <<i>>)
           \o MissingFrom(row, i + 1)
    ELSE <<>>

\* a loop that starts at index 1
MissingChunksFromOne(row) == MissingFrom(row, 1)

\* for (let i = 0; i < session.total_chunks; i++) ...
MissingChunks(row) == MissingFrom(row, 0)

\* resumeUpload of an authenticated caller: findById, the owner and status
\* checks, updateStatus(pending) for a failed session, and the answer built
\* from the row image findById returned.
ResumeUpload ==
  /\ request.route = "resume"
  /\ request' = NoRequest
  /\ IF session = NoRow
       THEN /\ response' = [code |-> 404, route |-> "resume"]
            /\ UNCHANGED session
       ELSE IF request.caller # "owner"
       THEN /\ response' = [code |-> 403, route |-> "resume"]
            /\ UNCHANGED session
       ELSE IF session.status = "completed"
       THEN /\ response' = [code |-> 400, route |-> "resume"]
            /\ UNCHANGED session
       ELSE /\ session' = IF session.status = "failed"
                            THEN [session EXCEPT !.status = "pending"]
                            ELSE session
            /\ response' = [code |-> 200, route |-> "resume",
                            totalChunks |-> session.total_chunks,
                            uploadedChunks |-> session.uploaded_chunks,
                            missingChunks |-> MissingChunks(session),
                            status |-> session.status]
  /\ UNCHANGED <<redisUp, redisSet, tempFiles, chunkFiles, uploadFile, bus,
                 posted, cw, aw, videos, assembled, completedReturns,
                 redisEverDown, deliveries, nextJob, cl, expired, crashes, queueUp,
                 bufferFull,
                 videoStatus, srv, client>>

\* Workers, queues, chunk files and Redis at rest.
WorkersAtRest ==
  /\ redisUp = TRUE
  /\ redisSet = {}
  /\ tempFiles = {}
  /\ chunkFiles = EmptyDir
  /\ bus = EmptyBus
  /\ posted = <<>>
  /\ cw = [w \in CommitWorkers |-> IdleCommit]
  /\ aw = [a \in AssemblyWorkers |-> IdleAssembly]
  /\ videos = 0
  /\ assembled = NotAssembled
  /\ completedReturns = 0
  /\ redisEverDown = FALSE
  /\ deliveries = <<>>
  /\ nextJob = 0
  /\ cl = IdleCleanup
  /\ expired = FALSE
  /\ crashes = 0
  /\ queueUp = TRUE
  /\ bufferFull = FALSE
  /\ videoStatus = <<>>
  /\ srv = ServerUp
  /\ client = NotCalled

\* The same, before any file was assembled.
PipelineAtRest == WorkersAtRest /\ uploadFile = NoFile

\* The row images an upload leaves behind: any status, and any set of
\* admitted indices (null is admitted for a non-numeric chunkIndex).
RowImages ==
  {NoRow} \cup
  {[CreatedSession(t, 1, t) EXCEPT !.status = st, !.uploaded_chunks = u] :
     t \in 1..MaxChunks,
     st \in {"pending", "uploading", "completed", "failed"},
     u \in SUBSET ({Num(i) : i \in 0..(MaxChunks - 1)} \cup {Null})}

\* A resume request arrives for a session in any such condition.
InitResume ==
  /\ PipelineAtRest
  /\ session \in {r \in RowImages :
                    \A c \in r.uploaded_chunks :
                      c = Null \/ c.v < r.total_chunks}
  /\ request \in {[route |-> "resume", caller |-> c] :
                    c \in {"owner", "other"}}
  /\ response = NoResponse

NextResume == ResumeUpload

SpecResume == InitResume /\ [][NextResume]_vars

\* An initialize request arrives before the session exists.
InitInitialize ==
  /\ PipelineAtRest
  /\ session = NoRow
  /\ request \in {[route |-> "init", filename |-> f, fileSize |-> fs,
                    chunkSize |-> c] :
                     f \in Filenames, fs \in FileSizes, c \in ChunkSizes}
  /\ response = NoResponse

NextInitialize == InitializeUpload

SpecInitialize == InitInitialize /\ [][NextInitialize]_vars

(* ---------------------------- range reader ----------------------------- *)

\* String.prototype.replace(pattern, "") with a non-global pattern: the
\* first occurrence of pat is removed.
RECURSIVE ReplaceFirst(_, _)
ReplaceFirst(s, pat) ==
  IF Len(s) < Len(pat) THEN s
  ELSE IF SubSeq(s, 1, Len(pat)) = pat
         THEN SubSeq(s, Len(pat) + 1, Len(s))
         ELSE <<Head(s)>> \o ReplaceFirst(Tail(s), pat)

\* String.prototype.split("-"): the pieces between the dashes.
RECURSIVE SplitDash(_, _)
SplitDash(s, cur) ==
  IF s = <<>> THEN <<cur>>
  ELSE IF Head(s) = "-" THEN <<cur>> \o SplitDash(Tail(s), <<>>)
                        ELSE SplitDash(Tail(s), cur \o <<Head(s)>>)

BytesEq == <<"b", "y", "t", "e", "s", "=">>

\* The header a client writes for the closed range S..E, the open range
\* S.. and the suffix range of the last N bytes.
RangeHeader(S, E) == BytesEq \o NatToString(S) \o <<"-">> \o NatToString(E)
OpenRangeHeader(S) == BytesEq \o NatToString(S) \o <<"-">>
SuffixRangeHeader(N) == BytesEq \o <<"-">> \o NatToString(N)

\* The template literal `bytes ${start}-${end}/${fileSize}`.
ContentRange(start, end, fileSize) ==
  <<"b", "y", "t", "e", "s", " ">> \o NatToString(start) \o <<"-">>
    \o NatToString(end) \o <<"/">> \o NatToString(fileSize)

\* What createReadStream(path, {start, end}) delivers: the bytes at offsets
\* start..end, both inclusive, as far as the file has them.
ReadRangeExclusive(blocks, start, end) ==
  IF start >= Len(blocks) THEN <<>>
  ELSE SubSeq(blocks, start + 1, IF end < Len(blocks) THEN end
                                                      ELSE Len(blocks))

ReadRange(blocks, start, end) ==
  IF start >= Len(blocks) THEN <<>>
  ELSE SubSeq(blocks, start + 1, IF end + 1 < Len(blocks) THEN end + 1
                                                          ELSE Len(blocks))

StreamAnswer(code, contentRange, contentLength, body) ==
  [code |-> code, route |-> "stream", contentRange |-> contentRange,
   contentLength |-> contentLength, body |-> body]

\* GET /stream/:filename.  createReadStream throws before writeHead when
\* start or end is not an integer >= 0 or when start > end; the default error
\* handler answers 500.
StreamFile ==
  /\ request.route = "stream"
  /\ request' = NoRequest
  /\ response' =
       IF ~uploadFile.exists THEN StreamAnswer(404, <<>>, 0, <<>>)
       ELSE
         LET fileSize == Len(uploadFile.blocks)
             range == request.range
         IN  IF range # <<>>
               THEN
                 LET parts == SplitDash(ReplaceFirst(range, BytesEq), <<>>)
                     start == ParseInt(parts[1])
                     end == IF Len(parts) >= 2 /\ parts[2] # <<>>
                              THEN ParseInt(parts[2])
                              ELSE Num(fileSize - 1)
                 IN  IF \/ ~JsGreaterEq(start, 0)
                        \/ ~JsGreaterEq(end, 0)
                        \/ start.v > end.v
                       THEN StreamAnswer(500, <<>>, 0, <<>>)
                       ELSE StreamAnswer(
                              206,
                              ContentRange(start.v, end.v, fileSize),
                              end.v - start.v + 1,
                              ReadRange(uploadFile.blocks, start.v, end.v))
               ELSE StreamAnswer(200, <<>>, fileSize, uploadFile.blocks)
  /\ UNCHANGED <<session, redisUp, redisSet, tempFiles, chunkFiles,
                 uploadFile, bus, posted, cw, aw, videos, assembled,
                 completedReturns, redisEverDown, deliveries, nextJob, cl,
                 expired, crashes, queueUp,
                 bufferFull,
                 videoStatus, srv, client>>

\* The byte at offset k of a stored file is k + 1, so that a body names the
\* offsets it was read from.
StoredFiles == {NoFile} \cup {File([k \in 1..L |-> k]) : L \in 0..MaxFileLen}

RangeHeaders ==
  {<<>>}
  \cup {RangeHeader(S, E) : S \in 0..(MaxFileLen + 1),
                            E \in 0..(MaxFileLen + 1)}
  \cup {OpenRangeHeader(S) : S \in 0..(MaxFileLen + 1)}
  \cup {SuffixRangeHeader(N) : N \in 1..MaxFileLen}

\* A stream request arrives for a stored or a missing file.
InitStream ==
  /\ WorkersAtRest
  /\ uploadFile \in StoredFiles
  /\ session = NoRow
  /\ request \in {[route |-> "stream", range |-> h] : h \in RangeHeaders}
  /\ response = NoResponse

NextStream == StreamFile

SpecStream == InitStream /\ [][NextStream]_vars

(* --------------------------- storage faults ---------------------------- *)

\* fs.readFile of a chunk file rejects (an I/O error of the volume): the
\* loop's catch destroys the stream and throws.
AsmReadError(a) ==
  /\ aw[a].pc = "read"
  /\ aw' = [aw EXCEPT ![a].pc = "fail"]
  /\ UNCHANGED <<session, redisUp, redisSet, tempFiles, chunkFiles,
                 uploadFile, bus, posted, cw, videos, assembled,
                 completedReturns, redisEverDown, deliveries, nextJob,
                 handlerVars>>

NextFault ==
  \/ Next
  \/ \E a \in AssemblyWorkers : AsmReadError(a)

\* the pipeline on a volume whose reads may fail
SpecFault == Init /\ [][NextFault]_vars

(* ---------------------- cancellation and expiry ------------------------ *)

\* CURRENT_TIMESTAMP passes the expires_at of the row (24 h after create).
Tick ==
  /\ ~expired
  /\ expired' = TRUE
  /\ UNCHANGED <<session, redisUp, redisSet, tempFiles, chunkFiles,
                 uploadFile, bus, posted, cw, aw, videos, assembled,
                 completedReturns, redisEverDown, deliveries, nextJob, cl,
                 crashes, queueUp,
                 bufferFull, request, response,
                 videoStatus, srv, client>>

\* temp numbers of the CommitChunk messages a handler is processing
InFlight == {cw[w].msg.job.temp : w \in {v \in CommitWorkers : cw[v].pc # "idle"}}

\* cancelUpload by the session's owner, up to the call of cleanupChunks:
\* findById; 404 when there is no row.
CancelUpload ==
  /\ cl.pc = "idle"
  /\ cl.calls < MaxCleanups
  /\ IF session = NoRow
       THEN /\ response' = [code |-> 404, route |-> "cancel"]
            /\ cl' = [cl EXCEPT !.calls = @ + 1]
       ELSE /\ cl' = [cl EXCEPT !.pc = "readdir", !.kind = "cancel",
                                !.status = session.status,
                                !.calls = @ + 1]
            /\ UNCHANGED response
  /\ UNCHANGED <<session, redisUp, redisSet, tempFiles, chunkFiles,
                 uploadFile, bus, posted, cw, aw, videos, assembled,
                 completedReturns, redisEverDown, deliveries, nextJob,
                 expired, crashes, queueUp,
                 bufferFull, request,
                 videoStatus, srv, client>>

\* cleanupExpiredSessions, up to the call of cleanupChunks for the row
\* found: findExpiredSessions selects the rows with expires_at <
\* CURRENT_TIMESTAMP, whatever their status, and deletes their Redis keys.
CleanupExpiredSessions ==
  /\ cl.pc = "idle"
  /\ cl.calls < MaxCleanups
  /\ IF session # NoRow /\ expired
       THEN /\ redisSet' = Del(redisSet)
            /\ cl' = [cl EXCEPT !.pc = "readdir", !.kind = "gc",
                                !.status = session.status,
                                !.calls = @ + 1]
            /\ UNCHANGED response
       ELSE /\ response' = [code |-> 200, route |-> "cleanup"]
            /\ cl' = [cl EXCEPT !.calls = @ + 1]
            /\ UNCHANGED redisSet
  /\ UNCHANGED <<session, redisUp, tempFiles, chunkFiles, uploadFile, bus,
                 posted, cw, aw, videos, assembled, completedReturns,
                 redisEverDown, deliveries, nextJob, expired, crashes, queueUp,
                 bufferFull,
                 request,
                 videoStatus, srv, client>>

\* cleanupChunks: fs.readdir(chunksDir) and the filter on the session's
\* prefix.  Every chunks/{id}_chunk_* file belongs to the one session.
CleanupReaddir ==
  /\ cl.pc = "readdir"
  /\ cl' = [cl EXCEPT !.pc = "unlink", !.files = DOMAIN chunkFiles]
  /\ UNCHANGED <<session, redisUp, redisSet, tempFiles, chunkFiles,
                 uploadFile, bus, posted, cw, aw, videos, assembled,
                 completedReturns, redisEverDown, deliveries, nextJob,
                 expired, crashes, queueUp,
                 bufferFull, request, response,
                 videoStatus, srv, client>>

\* cleanupChunks: unlink of the next listed file (readdir's order is the
\* file system's); an error is logged and the loop goes on.
CleanupUnlink ==
  /\ cl.pc = "unlink"
  /\ \E f \in cl.files :
       /\ chunkFiles' = RemoveFile(chunkFiles, f)
       /\ cl' = [cl EXCEPT !.files = @ \ {f}]
  /\ UNCHANGED <<session, redisUp, redisSet, tempFiles, uploadFile, bus,
                 posted, cw, aw, videos, assembled, completedReturns,
                 redisEverDown, deliveries, nextJob, expired, crashes, queueUp,
                 bufferFull,
                 request, response,
                 videoStatus, srv, client>>

\* cleanupOldTempFiles after the loop: only temp_* files older than one hour
\* are unlinked, and the parts of the requests followed here are younger.
\* Then UploadSessionModel.delete begins with cacheService.del.
CleanupDel ==
  /\ cl.pc = "unlink"
  /\ cl.files = {}
  /\ redisSet' = Del(redisSet)
  /\ cl' = [cl EXCEPT !.pc = "deleteRow"]
  /\ UNCHANGED <<session, redisUp, tempFiles, chunkFiles, uploadFile, bus,
                 posted, cw, aw, videos, assembled, completedReturns,
                 redisEverDown, deliveries, nextJob, expired, crashes, queueUp,
                 bufferFull,
                 request, response,
                 videoStatus, srv, client>>

\* DELETE FROM upload_sessions WHERE id = $1, and the handler's answer.
CleanupDeleteRow ==
  /\ cl.pc = "deleteRow"
  /\ session' = NoRow
  /\ response' = [code |-> 200,
                  route |-> IF cl.kind = "cancel" THEN "cancel" ELSE "cleanup"]
  /\ cl' = [cl EXCEPT !.pc = "idle", !.inflight = InFlight]
  /\ UNCHANGED <<redisUp, redisSet, tempFiles, chunkFiles, uploadFile, bus,
                 posted, cw, aw, videos, assembled, completedReturns,
                 redisEverDown, deliveries, nextJob, expired, crashes, queueUp,
                 bufferFull,
                 request,
                 videoStatus, srv, client>>

\* The chunk_processing handler invocations.
CommitStep ==
  \E w \in CommitWorkers :
    \/ CommitRename(w)
    \/ CommitFindById(w)
    \/ CommitSadd(w)
    \/ CommitScard(w)
    \/ CommitSmembers(w)
    \/ CommitUpdate(w)
    \/ CommitDel(w)
    \/ CommitFallback(w)

NextCleanup ==
  \/ \E str \in IndexStrings : UploadChunk(str)
  \/ CommitStep
  \/ Tick
  \/ CancelUpload
  \/ CleanupExpiredSessions
  \/ CleanupReaddir
  \/ CleanupUnlink
  \/ CleanupDel
  \/ CleanupDeleteRow

\* chunk intake and commit workers with a cancelUpload or a
\* cleanupExpiredSessions request at any moment
SpecCleanup == Init /\ [][NextCleanup]_vars

(* ---------------------- cancellation and assembly ---------------------- *)

\* The file_assembly handler invocations.
AssemblyStep ==
  \E a \in AssemblyWorkers :
    \/ AsmOpen(a)
    \/ AsmRead(a)
    \/ AsmUnlink(a)
    \/ AsmCreateVideo(a)
    \/ AsmCleanup(a)
    \/ AsmFail(a)

NextCancelAssembly ==
  \/ NextCleanup
  \/ AssemblyStep

\* the whole upload pipeline with a cancelUpload or a cleanupExpiredSessions
\* request at any moment
SpecCancelAssembly == Init /\ [][NextCancelAssembly]_vars

(* --------------------------- worker crash ------------------------------ *)

\* The messages of the running chunk_processing handler invocations, in the
\* order they were published.
Unacked ==
  LET busy == {w \in CommitWorkers : cw[w].pc # "idle"}
      temps == SelectSeq([n \in 1..Len(posted) |-> n],
                         LAMBDA n : n \in InFlight)
  IN  [k \in 1..Len(temps) |->
         LET w == CHOOSE v \in busy : cw[v].msg.job.temp = temps[k]
         IN  [job |-> cw[w].msg.job, retryCount |-> cw[w].msg.retryCount]]

\* The process that runs consumeChunkJobs is killed while handler
\* invocations are running: none of them goes on, their messages were not
\* acked and the broker puts them back at the head of chunk_processing.
WorkerCrash ==
  /\ crashes < MaxCrashes
  /\ InFlight # {}
  /\ crashes' = crashes + 1
  /\ bus' = [bus EXCEPT !["chunk_processing"].main = Unacked \o @]
  /\ cw' = [w \in CommitWorkers |-> IdleCommit]
  /\ UNCHANGED <<session, redisUp, redisSet, tempFiles, chunkFiles,
                 uploadFile, posted, aw, videos, assembled, completedReturns,
                 redisEverDown, deliveries, nextJob, cl, expired, queueUp,
                 bufferFull, request, response,
                 videoStatus, srv, client>>

NextCrash ==
  \/ \E str \in IndexStrings : UploadChunk(str)
  \/ CommitStep
  \/ WorkerCrash

\* chunk intake and commit workers whose process may be killed and restarted
SpecCrash == Init /\ [][NextCrash]_vars

(* ---------------------------- queue faults ----------------------------- *)

\* The messages of the running file_assembly handler invocations.
RECURSIVE AsmUnacked(_)
AsmUnacked(busy) ==
  IF busy = {} THEN <<>>
  ELSE LET a == CHOOSE x \in busy : \A y \in busy : x <= y
       IN  <<aw[a].msg>> \o AsmUnacked(busy \ {a})

\* connection.on("close") / connection.on("error") / QueueService.close():
\* isConnected = false.  The consumers get no further message, the broker
\* puts the unacked ones back at the head of their queues, and the handler
\* invocations that are running go on; nothing reconnects.
ConnectionClose ==
  /\ queueUp
  /\ queueUp' = FALSE
  /\ bus' = [bus EXCEPT
               !["chunk_processing"].main = Unacked \o @,
               !["file_assembly"].main =
                 AsmUnacked({a \in AssemblyWorkers : aw[a].pc # "idle"})
                   \o @]
  /\ UNCHANGED <<session, redisUp, redisSet, tempFiles, chunkFiles,
                 uploadFile, posted, cw, aw, videos, assembled,
                 completedReturns, redisEverDown, deliveries, nextJob, cl,
                 expired, crashes, request, response, bufferFull,
                 videoStatus, srv, client>>

\* The socket to the broker stops draining: the channel's write buffer
\* passes its high-water mark and sendToQueue starts to return false.
WriteBufferFull ==
  /\ queueUp
  /\ ~bufferFull
  /\ bufferFull' = TRUE
  /\ UNCHANGED <<session, redisUp, redisSet, tempFiles, chunkFiles,
                 uploadFile, bus, posted, cw, aw, videos, assembled,
                 completedReturns, redisEverDown, deliveries, nextJob, cl,
                 expired, crashes, request, response, queueUp,
                 videoStatus, srv, client>>

\* The channel's "drain" event.
Drain ==
  /\ bufferFull
  /\ bufferFull' = FALSE
  /\ UNCHANGED <<session, redisUp, redisSet, tempFiles, chunkFiles,
                 uploadFile, bus, posted, cw, aw, videos, assembled,
                 completedReturns, redisEverDown, deliveries, nextJob, cl,
                 expired, crashes, request, response, queueUp,
                 videoStatus, srv, client>>

NextQueueFault ==
  \/ Next
  \/ ConnectionClose
  \/ WriteBufferFull
  \/ Drain

\* the upload pipeline on a channel that may fill up or close at any moment
SpecQueueFault == Init /\ [][NextQueueFault]_vars

(* -------------------------- video processing --------------------------- *)

\* The videos row as VideoModel.create inserts it: status "processing",
\* thumbnail_path NULL.
NewVideoRow == [status |-> "processing", thumbnail_path |-> ""]

\* the videos row v
VideoRow(v) == IF v \in DOMAIN videoStatus THEN videoStatus[v] ELSE NewVideoRow

VideoStatusOf(v) == VideoRow(v).status

\* updateVideoStatus of a writer that sets thumbnail_path whatever the
\* result.
UpdateVideoStatusAlways(row, status, success) ==
  [status |-> status, thumbnail_path |-> "/thumbnail/{id}.jpg"]

\* updateVideoStatus(videoId, status, result): thumbnail_path is part of the
\* update only when result.success.
UpdateVideoStatus(row, status, success) ==
  [status |-> status,
   thumbnail_path |-> IF success THEN "/thumbnail/{id}.jpg"
                                 ELSE row.thumbnail_path]

\* processVideo on a row: fs.stat, extractMetadata (the probe), the
\* thumbnail, then the status update; the catch block covers a failed stat
\* and a rejected thumbnail and updates with an error result.
ProcessVideoRow(row, statOk, probeOk, thumbOk) ==
  IF ~statOk THEN UpdateVideoStatus(row, "failed", FALSE)
  ELSE IF probeOk
         THEN IF thumbOk THEN UpdateVideoStatus(row, "ready", TRUE)
                         ELSE UpdateVideoStatus(row, "failed", FALSE)
         ELSE UpdateVideoStatus(row, "failed", FALSE)

\* consumeVideoJobs callback with videoProcessingService.processVideo as
\* processor.  processVideo never throws, so the message is acked.  The
\* UPDATE matches no row when the id is unknown.
ProcessVideo(probeOk, thumbOk) ==
  /\ queueUp
  /\ bus["video_processing"].main # <<>>
  /\ LET m == Head(bus["video_processing"].main)
         v == m.job.videoId
     IN  videoStatus' =
           IF v \in 1..videos
             THEN PutFile(videoStatus, v,
                          ProcessVideoRow(VideoRow(v), uploadFile.exists,
                                          probeOk, thumbOk))
             ELSE videoStatus
  /\ bus' = Dequeue(bus, "video_processing", "main")
  /\ UNCHANGED <<session, redisUp, redisSet, tempFiles, chunkFiles,
                 uploadFile, posted, cw, aw, videos, assembled,
                 completedReturns, redisEverDown, deliveries, nextJob, cl,
                 expired, crashes, request, response, queueUp, bufferFull,
                 srv, client>>

\* The tail of assembleFile on its own: VideoModel.create and
\* publishVideoJob for the new row.
CreateAndPublishVideo ==
  /\ videos < MaxVideos
  /\ videos' = videos + 1
  /\ bus' = Publish(bus, "video_processing", [videoId |-> videos + 1])
  /\ UNCHANGED <<session, redisUp, redisSet, tempFiles, chunkFiles,
                 uploadFile, posted, cw, aw, assembled, completedReturns,
                 redisEverDown, deliveries, nextJob, handlerVars>>

\* Post-processing starts with the assembled file in place or missing.
InitPostProcess ==
  /\ WorkersAtRest
  /\ uploadFile \in {NoFile, File(<<1>>)}
  /\ session = NoRow
  /\ request = NoRequest
  /\ response = NoResponse

NextPostProcess ==
  \/ CreateAndPublishVideo
  \/ \E probeOk \in BOOLEAN, thumbOk \in BOOLEAN :
       ProcessVideo(probeOk, thumbOk)

\* the video consumer fed with one job per new videos row
SpecPostProcess == InitPostProcess /\ [][NextPostProcess]_vars

NextVideo ==
  \/ NextQueueFault
  \/ \E probeOk \in BOOLEAN, thumbOk \in BOOLEAN :
       ProcessVideo(probeOk, thumbOk)

\* the upload pipeline followed by the video consumer
SpecVideo == Init /\ [][NextVideo]_vars

(* ------------------- work bus with any processor ----------------------- *)

\* Pipelines whose retry queue has a consumer: consumeRetryJobs consumes
\* video_processing_retry; no code consumes the other two retry queues.
RetryConsumers == {"video_processing"}

\* Pipelines whose DLQ has a consumer: monitorDeadLetterQueue.
DlqConsumers == {"video_processing"}

\* publishVideoJob / publishChunkJob / publishFileAssemblyJob of a new job.
BusPublish(p) ==
  /\ nextJob < MaxJobs
  /\ LET job == <<p, nextJob + 1>>
     IN  /\ bus' = Publish(bus, p, job)
         /\ deliveries' = [j \in DOMAIN deliveries \cup {job} |->
                             IF j = job THEN 0 ELSE deliveries[j]]
  /\ nextJob' = nextJob + 1
  /\ UNCHANGED uploadVars

\* A consumer callback on queue q of pipeline p: the processor is handed
\* the job; it returns (ok) or throws.
BusConsume(p, q, ok) ==
  /\ bus[p][q] # <<>>
  /\ LET m == Head(bus[p][q])
         b == Dequeue(bus, p, q)
     IN  /\ deliveries' = [deliveries EXCEPT ![m.job] = @ + 1]
         /\ bus' = IF ok THEN b ELSE OnProcessorError(b, p, m)
  /\ UNCHANGED <<uploadVars, nextJob>>

\* consumeVideoJobs / consumeChunkJobs / consumeFileAssemblyJobs
BusConsumeMain(p, ok) == BusConsume(p, "main", ok)

\* consumeRetryJobs
BusConsumeRetry(p, ok) ==
  /\ p \in RetryConsumers
  /\ BusConsume(p, "retry", ok)

\* monitorDeadLetterQueue: log and ack.
BusMonitorDLQ(p) ==
  /\ p \in DlqConsumers
  /\ bus[p].dlq # <<>>
  /\ bus' = Dequeue(bus, p, "dlq")
  /\ UNCHANGED <<uploadVars, deliveries, nextJob>>

NextBus ==
  \/ \E p \in Pipelines : BusPublish(p)
  \/ \E p \in Pipelines, ok \in BOOLEAN : BusConsumeMain(p, ok)
  \/ \E p \in Pipelines, ok \in BOOLEAN : BusConsumeRetry(p, ok)
  \/ \E p \in Pipelines : BusMonitorDLQ(p)

SpecBus == Init /\ [][NextBus]_vars

\* Every registered consumer keeps consuming.
FairSpecBus ==
  /\ SpecBus
  /\ \A p \in Pipelines :
       /\ WF_vars(\E ok \in BOOLEAN : BusConsumeMain(p, ok))
       /\ WF_vars(\E ok \in BOOLEAN : BusConsumeRetry(p, ok))
       /\ WF_vars(BusMonitorDLQ(p))

(* ------------------------------ properties ----------------------------- *)

Terminal == {"completed", "failed"}

\* total_chunks of the session, also after its row was deleted by assembly
SessionTotal ==
  IF session # NoRow THEN session.total_chunks ELSE assembled.total

\* chunk indices of the requests the intake handler queued
QueuedIndices == {posted[n] : n \in {k \in 1..Len(posted) : posted[k] # Rejected}}

\* every queued chunk index is a number and Redis has stayed connected
ValidRun == ~redisEverDown /\ Null \notin QueuedIndices

\* no CommitChunk message is waiting or being processed
CommitsSettled ==
  /\ bus["chunk_processing"].main = <<>>
  /\ \A w \in CommitWorkers : cw[w].pc = "idle"

\* no AssembleFile message has been handed to a processor yet
AssemblyUntouched ==
  /\ \A a \in AssemblyWorkers : aw[a].pc = "idle"
  /\ bus["file_assembly"].retry = <<>>
  /\ assembled = NotAssembled

\* blocks is the content of the chunk files 0 .. total-1 in ascending order:
\* block k was stored by a request that carried chunkIndex k-1
IsAscendingConcat(blocks, total) ==
  /\ Len(blocks) = total
  /\ \A k \in 1..total :
       /\ blocks[k] # Hole
       /\ posted[blocks[k]] = Num(k - 1)

\* C1 (P2 completion equivalence): after any interleaving of
\* updateChunkUploaded calls of parallel commit workers (numeric indices,
\* Redis connected, assembly not yet run), the session row has status =
\* completed if and only if uploaded_chunks holds total_chunks distinct
\* indices.
C1_CompletionEquivalence ==
  (session # NoRow /\ ValidRun /\ AssemblyUntouched) =>
    (session.status = "completed"
       <=> Cardinality(session.uploaded_chunks) = session.total_chunks)

\* C2 (P3 idempotent, commutative commit): once every queued CommitChunk
\* message with a valid index has been processed (Redis never failing, the
\* assembly not yet run), the session image is a function of the set of
\* distinct indices alone: uploaded_chunks is that set and status is
\* completed when the set is full, uploading otherwise.
C2_CommitDeterminism ==
  (/\ session # NoRow
   /\ ValidRun
   /\ QueuedIndices # {}
   /\ CommitsSettled
   /\ bus["chunk_processing"].retry = <<>>
   /\ AssemblyUntouched)
  => /\ session.uploaded_chunks = QueuedIndices
     /\ session.status =
          IF Cardinality(QueuedIndices) = session.total_chunks
            THEN "completed" ELSE "uploading"

\* C3 (single completion): among all updateChunkUploaded calls on the session
\* (numeric indices, Redis connected) at most one returns the completed
\* image, so at most one processChunk triggers file assembly.
C3_SingleCompletion == ValidRun => completedReturns <= 1

\* C4 (P1 chunk set bound): uploaded_chunks has at most total_chunks
\* elements and each is an integer in [0, total_chunks).
C4_ChunkSetBound ==
  session # NoRow =>
    /\ Cardinality(session.uploaded_chunks) <= session.total_chunks
    /\ \A c \in session.uploaded_chunks :
         c.t = "number" /\ 0 <= c.v /\ c.v < session.total_chunks

\* C5 (P4 concatenation correctness): when assembleFile has returned
\* successfully (numeric indices, Redis connected), uploads/{filename} holds
\* the chunk contents 0 .. total-1 in ascending order, each once.
C5_Concatenation ==
  (ValidRun /\ assembled.exists) =>
    IsAscendingConcat(assembled.blocks, assembled.total)

\* every chunk index of the session was posted exactly once and queued
PostedEachOnce ==
  /\ SessionTotal > 0
  /\ Len(posted) = SessionTotal
  /\ QueuedIndices = {Num(i) : i \in 0..(SessionTotal - 1)}

\* nothing is queued on a consumed queue and no handler is running
Quiescent ==
  /\ CommitsSettled
  /\ bus["file_assembly"].main = <<>>
  /\ \A a \in AssemblyWorkers : aw[a].pc = "idle"

\* the upload ended as intended
UploadDone ==
  /\ session = NoRow
  /\ uploadFile.exists
  /\ IsAscendingConcat(uploadFile.blocks, SessionTotal)
  /\ videos >= 1

\* C6 (end-to-end completion): when every index was posted once and queued
\* and no store, index or queue failed, the session never has status failed,
\* and once the workers have nothing left to do the session row is deleted,
\* the assembled file is the ascending concatenation and a Video row exists.
C6_ParallelUploadCompletes ==
  (PostedEachOnce /\ ValidRun) =>
    /\ session.status # "failed"
    /\ Quiescent => UploadDone

\* C7 (terminal no-op): while the row has status completed or failed
\* (numeric indices, Redis connected), no step other than deleting the row
\* changes uploaded_chunks, and no step of a commit worker changes status.
C7_TerminalNoOp ==
  [][(ValidRun /\ session.status \in Terminal /\ session' # NoRow) =>
       /\ session'.uploaded_chunks = session.uploaded_chunks
       /\ (cw' # cw => session'.status = session.status)]_vars

\* C8 (index unavailability): when a cache operation of an
\* updateChunkUploaded(id, i) call found Redis disconnected, the UPDATE of
\* that call stores the previous uploaded_chunks united with {i} and the
\* status the fallback computes from it.
C8_IndexUnavailable ==
  [][\A w \in CommitWorkers :
       (/\ cw[w].pc = "update"
        /\ cw'[w].pc # "update"
        /\ cw[w].cacheMiss
        /\ session # NoRow) =>
         LET united == session.uploaded_chunks \cup {cw[w].msg.job.chunkIndex}
         IN  /\ session'.uploaded_chunks = united
             /\ session'.status = FallbackStatus(united, session.total_chunks)
    ]_vars

\* C9 (P7 bounded retry): no job is handed to a processor by a main or retry
\* consumer more than 4 times.
C9_BoundedRetry == \A j \in DOMAIN deliveries : deliveries[j] <= 4

\* A job that failed on all of its 4 deliveries and was dead-lettered.
C9_Witness ==
  \E j \in DOMAIN deliveries :
    /\ deliveries[j] = 4
    /\ \E k \in 1..Len(bus[j[1]].dlq) : bus[j[1]].dlq[k].job = j

\* C10 (retry feedback): in every pipeline a message in the retry queue is
\* eventually consumed again; no message stays in a retry queue forever.
C10_RetryFeedsBack ==
  \A p \in Pipelines : (bus[p].retry # <<>>) ~> (bus[p].retry = <<>>)

\* C11 (P8 no orphan chunks after success): in the state right after an
\* assembleFile call has returned successfully and its message is acked
\* (numeric indices, Redis connected), no file chunks/{id}_chunk_* exists and
\* the upload_sessions row is gone.
C11_NoOrphanChunks ==
  [][\A a \in AssemblyWorkers :
       (ValidRun /\ aw[a].pc = "cleanup" /\ aw'[a].pc = "idle") =>
         /\ chunkFiles' = EmptyDir
         /\ session' = NoRow
    ]_vars

\* cancelUpload has answered 200 for the session
Cancelled == response = [code |-> 200, route |-> "cancel"]

\* C12 (cancel versus in-flight commits): after cancelUpload has returned,
\* no CommitChunk message whose processing began later is sent to
\* chunk_processing_retry, and whenever no CommitChunk message is waiting or
\* being processed no file chunks/{id}_chunk_* exists.
C12_CancelDropsCommits ==
  [][Cancelled =>
       LET old == bus["chunk_processing"].retry
           new == bus'["chunk_processing"].retry
       IN  /\ \A k \in 1..Len(new) :
                k > Len(old) => new[k].job.temp \in cl.inflight
           /\ CommitsSettled' => chunkFiles' = EmptyDir
    ]_vars

\* C13 (P9 GC soundness): in the state right after cleanupExpiredSessions has
\* run to completion on an expired row whose status was not completed, the
\* row is gone and no file chunks/{id}_chunk_* of the session exists.
C13_GcSoundness ==
  [][(/\ cl.kind = "gc"
      /\ cl.pc = "deleteRow"
      /\ cl'.pc = "idle"
      /\ cl.status # "completed") =>
       /\ session' = NoRow
       /\ chunkFiles' = EmptyDir
    ]_vars

\* the message at the head of chunk_processing was processed before up to
\* the rename: its temp file is gone and its target exists
RedeliveredAfterRename ==
  /\ bus["chunk_processing"].main # <<>>
  /\ LET m == Head(bus["chunk_processing"].main)
     IN  /\ m.job.temp \notin tempFiles
         /\ Exists(chunkFiles, m.job.chunkIndex)

\* C14 (crash-safe commit redelivery): when a CommitChunk message whose
\* earlier processing stopped after the rename is handed to a handler again,
\* the handler does not fail at the rename step: the message is not
\* republished, and a handler goes on to updateChunkUploaded with it.
C14_RedeliveryCommits ==
  [][(/\ RedeliveredAfterRename
      /\ bus'["chunk_processing"].main = Tail(bus["chunk_processing"].main)) =>
       /\ bus'["chunk_processing"].retry = bus["chunk_processing"].retry
       /\ bus'["chunk_processing"].dlq = bus["chunk_processing"].dlq
       /\ \E w \in CommitWorkers :
            /\ cw'[w].pc = "findById"
            /\ cw'[w].msg = Head(bus["chunk_processing"].main)
    ]_vars

\* C15 (assembly idempotent per session): whatever number of AssembleFile
\* messages is processed (numeric indices, Redis connected), at most one
\* Video row is created for the session and at most one ProcessVideo job is
\* published for it.
C15_AssemblyIdempotent ==
  ValidRun =>
    /\ videos <= 1
    /\ Len(bus["video_processing"].main) <= 1

\* C16 (assembly precondition failure is fatal): when assembleFile finds the
\* row not completed or its uploaded_chunks count different from
\* total_chunks, it writes no output file, creates no Video row and publishes
\* no ProcessVideo job, and its message goes to file_assembly_dlq without
\* being republished to file_assembly_retry.
C16_PreconditionFatal ==
  [][\A a \in AssemblyWorkers :
       /\ (aw[a].pc = "idle" /\ aw'[a].pc = "fail") =>
            /\ uploadFile' = uploadFile
            /\ videos' = videos
       /\ (/\ ValidRun
           /\ session # NoRow
           /\ aw[a].pc = "fail"
           /\ aw[a].total = 0
           /\ aw'[a].pc = "idle") =>
            /\ bus'["file_assembly"].retry = bus["file_assembly"].retry
            /\ Len(bus'["file_assembly"].dlq) =
                 Len(bus["file_assembly"].dlq) + 1
            /\ bus'["video_processing"] = bus["video_processing"]
            /\ videos' = videos
    ]_vars

\* C17 (assembly failure is retriable): when assembleFile fails after its
\* precondition held and before VideoModel.create, the row is left as it was
\* and every chunk file 0 .. total_chunks-1 is still on disk.
C17_FailureRetriable ==
  [][\A a \in AssemblyWorkers :
       (/\ ValidRun
        /\ session # NoRow
        /\ aw[a].pc = "fail"
        /\ aw[a].total > 0
        /\ aw'[a].pc = "idle") =>
         /\ session' = session
         /\ \A i \in 0..(aw[a].total - 1) : Exists(chunkFiles', Num(i))
    ]_vars

\* C18 (P6 resume completeness): the missingChunks of a resumeUpload answer
\* are exactly the indices 0 .. total_chunks-1 that are not in the
\* uploadedChunks it returns, in ascending order, and every session that is
\* not completed gets such an answer from its owner's request.
C18_ResumeCompleteness ==
  response.route = "resume" =>
    /\ response.code = 200 =>
         LET missing == response.missingChunks
         IN  /\ {missing[k] : k \in 1..Len(missing)} =
                  {i \in 0..(response.totalChunks - 1) :
                     Num(i) \notin response.uploadedChunks}
             /\ \A k \in 1..(Len(missing) - 1) : missing[k] < missing[k + 1]
             /\ \A k \in 1..Len(missing) :
                  Num(missing[k]) \notin response.uploadedChunks
    /\ response.code = 400 => session.status = "completed"

\* A resume answer that lists a missing index after an uploaded one.
C18_Witness ==
  /\ response.route = "resume"
  /\ response.code = 200
  /\ response.totalChunks = 2
  /\ response.uploadedChunks = {Num(0)}
  /\ response.missingChunks = <<1>>

\* C19 (intake admission): uploadChunk publishes a CommitChunk message only
\* for an existing session whose status is neither completed nor failed and
\* for a chunk index that is a number with 0 <= chunkIndex < total_chunks.
C19_IntakeAdmission ==
  [][LET old == bus["chunk_processing"].main
         new == bus'["chunk_processing"].main
     IN  (posted' # posted /\ Len(new) > Len(old)) =>
           /\ session # NoRow
           /\ session.status \notin Terminal
           /\ LET chunkIndex == new[Len(new)].job.chunkIndex
              IN  /\ chunkIndex.t = "number"
                  /\ 0 <= chunkIndex.v
                  /\ chunkIndex.v < session.total_chunks
    ]_vars

\* C20 (init validation): initializeUpload answers 4xx and creates no row
\* whenever fileSize exceeds 5 GiB or chunkSize is below 1, and every row it
\* creates has file_size >= 1, chunk_size >= 1 and total_chunks >= 1.
C20_InitValidation ==
  [][(request.route = "init" /\ request' = NoRequest) =>
       /\ (request.fileSize > FileSizeLimit \/ request.chunkSize < 1) =>
            /\ response'.code >= 400
            /\ response'.code < 500
            /\ session' = NoRow
       /\ session' # NoRow =>
            /\ session'.file_size >= 1
            /\ session'.chunk_size >= 1
            /\ session'.total_chunks >= 1
    ]_vars

\* A stream request for a stored file of length L carrying the header h.
StreamOf(h) ==
  /\ request.route = "stream"
  /\ request' = NoRequest
  /\ uploadFile.exists
  /\ request.range = h

\* C21: for a file of length L and integers 0 <= S <= E < L, the request
\* "Range: bytes=S-E" is answered 206 with Content-Range "bytes S-E/L",
\* Content-Length E-S+1 and the file bytes S..E inclusive as body.
C21_RangeRoundTrip ==
  [][\A S \in 0..(MaxFileLen + 1), E \in 0..(MaxFileLen + 1) :
       (StreamOf(RangeHeader(S, E)) /\ S <= E
          /\ E < Len(uploadFile.blocks))
         => /\ response'.code = 206
            /\ response'.contentRange
                 = ContentRange(S, E, Len(uploadFile.blocks))
            /\ response'.contentLength = E - S + 1
            /\ response'.body = [k \in 1..(E - S + 1) |->
                                   uploadFile.blocks[S + k]]]_vars

\* A range in the middle of the longest file was served.
C21_Witness ==
  /\ response.route = "stream"
  /\ response.code = 206
  /\ Len(uploadFile.blocks) = MaxFileLen
  /\ response.body = <<2, 3>>
  /\ response.contentRange = ContentRange(1, 2, MaxFileLen)

\* C22: a Range header denoting a range outside an existing file of length
\* L (S >= L, E >= L or S > E) is answered 416 and never 206.
C22_OutOfRange ==
  [][\A S \in 0..(MaxFileLen + 1), E \in 0..(MaxFileLen + 1) :
       (StreamOf(RangeHeader(S, E))
          /\ (S >= Len(uploadFile.blocks) \/ E >= Len(uploadFile.blocks)
                \/ S > E))
         => response'.code = 416]_vars

\* The status changes of the session state machine; a row may also be
\* deleted from any status.
StatusEdges ==
  {<<"pending", "uploading">>, <<"uploading", "uploading">>,
   <<"pending", "completed">>, <<"uploading", "completed">>,
   <<"pending", "failed">>, <<"uploading", "failed">>}

\* C23: every change of a session's status is one of the edges
\* pending->uploading, uploading->uploading, pending->completed,
\* uploading->completed, pending->failed or uploading->failed; status never
\* goes from completed or failed to uploading, and a completed session
\* leaves that state only by deletion of its row.
C23_StatusEdges ==
  [][(ValidRun /\ session'.status # session.status)
       => \/ session'.status = "none"
          \/ <<session.status, session'.status>> \in StatusEdges]_vars

\* C24: once chunks/{s}_chunk_{i} exists, processing a further
\* CommitChunk(s, i) that carries a different temp file leaves the content of
\* chunks/{s}_chunk_{i} unchanged and removes the second temp file.
C24_ChunkWrittenOnce ==
  [][\A w \in CommitWorkers :
       (/\ ValidRun
        /\ CommitRename(w)
        /\ LET m == Head(bus["chunk_processing"].main)
           IN  /\ Exists(chunkFiles, m.job.chunkIndex)
               /\ m.job.temp \in tempFiles
               /\ chunkFiles[m.job.chunkIndex] # m.job.temp)
         => LET m == Head(bus["chunk_processing"].main)
            IN  /\ Exists(chunkFiles', m.job.chunkIndex)
                /\ chunkFiles'[m.job.chunkIndex]
                     = chunkFiles[m.job.chunkIndex]
                /\ m.job.temp \notin tempFiles']_vars

\* an assembleFile run has ended its write stream on uploads/{filename}
WritingFinished ==
  /\ uploadFile.exists
  /\ \/ assembled # NotAssembled
     \/ \E b \in AssemblyWorkers : aw[b].pc \in {"create", "cleanup"}

\* C25: uploads/{filename} is opened for writing by at most one assembleFile
\* run that passed the precondition check; once an assembly has finished
\* writing it, no later or concurrent AssembleFile processing truncates,
\* rewrites or destroys the file.
C25_AssembledWrittenOnce ==
  [][(ValidRun /\ WritingFinished) => uploadFile' = uploadFile]_vars

\* C26: an AssembleFile job processed while uploads/{filename} exists and
\* the session row has been deleted is acked as a success: nothing goes to
\* file_assembly_retry or file_assembly_dlq and no file, Video row or
\* session row changes.
C26_RedeliveredAssemblyAcked ==
  [][\A a \in AssemblyWorkers :
       (ValidRun /\ uploadFile.exists /\ session = NoRow /\ AsmOpen(a))
         => /\ aw'[a].pc = "idle"
            /\ bus'["file_assembly"].retry = bus["file_assembly"].retry
            /\ bus'["file_assembly"].dlq = bus["file_assembly"].dlq
            /\ UNCHANGED <<uploadFile, chunkFiles, tempFiles, videos,
                           session>>]_vars

\* C27: when updateChunkUploaded returned status completed, an AssembleFile
\* job is published to file_assembly before the CommitChunk message is
\* acked; when publishFileAssemblyJob returns false the CommitChunk
\* processing counts as failed and the message goes to the retry queue.
C27_CompletionLeadsToAssembly ==
  [][(ValidRun /\ completedReturns' = completedReturns + 1)
       => IF PublishReturns
            THEN Len(bus'["file_assembly"].main)
                   = Len(bus["file_assembly"].main) + 1
            ELSE Len(bus'["chunk_processing"].retry)
                   = Len(bus["chunk_processing"].retry) + 1]_vars

\* ProcessVideo jobs for videos row v that wait in a queue of the pipeline
VideoJobPending(v) ==
  \E q \in {"main", "retry"} :
    \E k \in 1..Len(bus["video_processing"][q]) :
      bus["video_processing"][q][k].job.videoId = v

\* C28: when an AssembleFile job has ended in success (Video row created in
\* status processing, session row deleted) a ProcessVideo job for the row
\* has been published, so a row in status processing always has a
\* ProcessVideo job waiting for it and leaves that status once the video
\* consumer runs.
C28_AssemblyHandsOver ==
  (ValidRun /\ \A a \in AssemblyWorkers : aw[a].pc # "cleanup")
    => \A v \in 1..videos :
         VideoStatusOf(v) = "processing" => VideoJobPending(v)

\* CommitChunk messages in chunk_processing that carry temp file n
ChunkJobsOf(b, n) ==
  {k \in 1..Len(b["chunk_processing"].main) :
     b["chunk_processing"].main[k].job.temp = n}

\* C29: uploadChunk answers 200 with status "queued" exactly when
\* publishChunkJob returned true; when it returned false the temp file of
\* the request is deleted, no CommitChunk message exists for the request,
\* the session row is unchanged and the answer is a 5xx error.
C29_IntakeEnqueueOutcome ==
  [][\A str \in IndexStrings :
       (UploadChunk(str) /\ response'.code \in {200, 500})
         => LET n == Len(posted) + 1
            IN  IF PublishReturns
                  THEN response'.code = 200 /\ response'.status = "queued"
                  ELSE /\ response'.code = 500
                       /\ n \notin tempFiles'
                       /\ ChunkJobsOf(bus', n) = {}
                       /\ session' = session]_vars

\* Job j is handed to a processor in this step from queue q of pipeline p.
Delivered(j, p, q) ==
  /\ deliveries'[j] = deliveries[j] + 1
  /\ bus[p][q] # <<>>
  /\ Head(bus[p][q]).job = j

\* C30: a published message starts with retryCount 0; a failed delivery with
\* retryCount c < 3 publishes exactly one copy with retryCount c + 1 to the
\* pipeline's retry queue and acks the original, one with c >= 3 publishes
\* to the pipeline's DLQ instead; so every message in a retry queue has
\* retryCount in 1..3 and a message reaches a DLQ only after a failed
\* delivery with retryCount 3.
C30_RetryCounting ==
  [][/\ nextJob' = nextJob + 1 =>
          \E p \in Pipelines :
            bus' = [bus EXCEPT ![p].main =
                      Append(@, [job |-> <<p, nextJob'>>, retryCount |-> 0])]
     /\ \A j \in DOMAIN deliveries, p \in Pipelines, q \in {"main", "retry"} :
          Delivered(j, p, q) =>
            LET c == Head(bus[p][q]).retryCount
                acked == Dequeue(bus, p, q)
            IN  \/ bus' = acked
                \/ /\ c < 3
                   /\ bus' = [acked EXCEPT ![p].retry =
                                Append(@, [job |-> j, retryCount |-> c + 1])]
                \/ /\ c >= 3
                   /\ bus' = [acked EXCEPT ![p].dlq =
                                Append(@, [job |-> j,
                                           retryCount |-> NoRetryHeader])]
     /\ \A p \in Pipelines :
          /\ \A k \in 1..Len(bus'[p].retry) :
               bus'[p].retry[k].retryCount \in 1..3
          /\ Len(bus'[p].dlq) > Len(bus[p].dlq) =>
               \E j \in DOMAIN deliveries, q \in {"main", "retry"} :
                 Delivered(j, p, q) /\ Head(bus[p][q]).retryCount = 3
    ]_vars

\* A retry queue holds a message on its last retry while the DLQ of the
\* pipeline holds a job that has used up its retries.
C30_Witness ==
  \E p \in Pipelines :
    /\ bus[p].retry # <<>>
    /\ Head(bus[p].retry).retryCount = 3
    /\ bus[p].dlq # <<>>
    /\ \A k \in 1..Len(bus[p].dlq) : deliveries[bus[p].dlq[k].job] = 4

\* Job j is in some queue of the bus image b.
InBus(b, j) ==
  \E p \in Pipelines, q \in {"main", "retry", "dlq"} :
    \E k \in 1..Len(b[p][q]) : b[p][q][k].job = j

\* C31: a consumed message is acked only after its processor returned or
\* after a copy went to the retry queue or the DLQ: a job leaves the queues
\* only by a delivery to a processor that returned successfully or by the DLQ
\* monitor logging it.
C31_NoJobLost ==
  [][/\ \A p \in Pipelines, q \in {"main", "retry"} :
          (bus[p][q] # <<>> /\ BusConsume(p, q, FALSE))
            => InBus(bus', Head(bus[p][q]).job)
     /\ \A j \in DOMAIN deliveries :
          (InBus(bus, j) /\ ~InBus(bus', j))
            => \/ \E p \in Pipelines, q \in {"main", "retry"} :
                    /\ Delivered(j, p, q)
                    /\ BusConsume(p, q, TRUE)
               \/ \E p \in DlqConsumers :
                    /\ bus[p].dlq # <<>>
                    /\ Head(bus[p].dlq).job = j
                    /\ bus' = Dequeue(bus, p, "dlq")]_vars

\* One job was processed successfully and is gone, another failed and waits
\* in a retry queue.
C31_Witness ==
  \E i \in DOMAIN deliveries, j \in DOMAIN deliveries :
    /\ deliveries[i] = 1 /\ ~InBus(bus, i)
    /\ deliveries[j] = 1
    /\ \E k \in 1..Len(bus[j[1]].retry) : bus[j[1]].retry[k].job = j

\* C32: assembleFile creates a Video row only for a session loaded with
\* status completed and all chunks recorded, after reading all chunk files;
\* for a session cancelled or garbage-collected before it reached completed
\* no Video row and no uploads/{filename} file is created, whatever messages
\* are still in flight.
C32_VideoOnlyFromCompleteUpload ==
  [][/\ \A a \in AssemblyWorkers :
          (aw[a].pc = "idle" /\ aw'[a].pc = "read")
            => AssemblyPrecondition(session)
     /\ videos' # videos
          => \E a \in AssemblyWorkers :
               aw[a].pc = "create" /\ aw[a].i = aw[a].total
     /\ (ValidRun /\ response.code = 200
           /\ response.route \in {"cancel", "cleanup"}
           /\ cl.status \in {"pending", "uploading"})
          => /\ videos' = videos
             /\ uploadFile'.exists => uploadFile.exists]_vars

\* C33: processVideo never raises to the consumer: the message is acked and
\* nothing goes to video_processing_retry; when the probe or the thumbnail
\* fails the row is set to failed; the row is set to ready only when the
\* probe succeeded and a thumbnail was generated, and thumbnail_path is set
\* only in that case (it is empty while status is processing).
C33_PostProcessingOutcome ==
  [][/\ \A probeOk \in BOOLEAN, thumbOk \in BOOLEAN :
          ProcessVideo(probeOk, thumbOk)
            => LET v == Head(bus["video_processing"].main).job.videoId
               IN  /\ bus' = Dequeue(bus, "video_processing", "main")
                   /\ (~probeOk \/ ~thumbOk)
                        => videoStatus'[v].status = "failed"
                   /\ videoStatus'[v].status = "ready"
                        => probeOk /\ thumbOk
                   /\ videoStatus'[v].thumbnail_path
                          # VideoRow(v).thumbnail_path
                        => /\ probeOk /\ thumbOk
                           /\ videoStatus'[v].status = "ready"
                   /\ videoStatus'[v].status = "ready"
                        => videoStatus'[v].thumbnail_path # ""
     /\ \A v \in 1..videos :
          VideoStatusOf(v) = "processing" => VideoRow(v).thumbnail_path = ""
    ]_vars

\* One row became ready with its thumbnail and another one failed.
C33_Witness ==
  \E v \in DOMAIN videoStatus, u \in DOMAIN videoStatus :
    /\ videoStatus[v] = [status |-> "ready",
                         thumbnail_path |-> "/thumbnail/{id}.jpg"]
    /\ videoStatus[u] = [status |-> "failed", thumbnail_path |-> ""]

\* s ends with suffix
EndsWith(s, suffix) ==
  /\ Len(suffix) <= Len(s)
  /\ SubSeq(s, Len(s) - Len(suffix) + 1, Len(s)) = suffix

\* t is the ceiling of f / c, c # 0
IsCeiling(t, f, c) ==
  IF c > 0 THEN t * c >= f /\ (t - 1) * c < f
           ELSE t * c <= f /\ (t - 1) * c > f

\* C34: every row created by initializeUpload has status pending, an empty
\* uploaded_chunks, total_chunks equal to the ceiling of file_size /
\* chunk_size and a server-chosen filename that ends with the extension of
\* the client filename; the 201 answer reports that totalChunks and an empty
\* uploadedChunks.
C34_InitResult ==
  [][(request.route = "init" /\ request' = NoRequest /\ session' # NoRow)
       => /\ session'.status = "pending"
          /\ session'.uploaded_chunks = {}
          /\ session'.file_size = request.fileSize
          /\ session'.chunk_size = request.chunkSize
          /\ IsCeiling(session'.total_chunks, session'.file_size,
                       session'.chunk_size)
          /\ response'.code = 201
          /\ response'.totalChunks = session'.total_chunks
          /\ response'.uploadedChunks = {}
          /\ EndsWith(response'.filename, ExtName(request.filename))
          /\ request.filename = <<"a", ".", "m", "p", "4">>
               => response'.filename = Uuid \o <<".", "m", "p", "4">>
          /\ request.filename = <<"a", ".", "t", ".", "g", "z">>
               => response'.filename = Uuid \o <<".", "g", "z">>
          /\ request.filename \in {<<"a">>, <<".", "a">>,
                                   <<"d", ".", "d", "/", "a">>}
               => response'.filename = Uuid]_vars

\* A row of three chunks was created for a file with an extension.
C34_Witness ==
  /\ response.route = "init"
  /\ response.code = 201
  /\ response.filename = Uuid \o <<".", "m", "p", "4">>
  /\ session.file_size = 3
  /\ session.chunk_size = 2
  /\ session.total_chunks = 2

\* C35: a missing start of the Range header is taken as 0 and a missing end
\* as L-1: "bytes=S-" is answered 206 with Content-Range "bytes S-(L-1)/L",
\* and a header with no start value ("bytes=-E") is answered with the
\* numeric start 0.
C35_RangeDefaults ==
  [][/\ \A S \in 0..(MaxFileLen + 1) :
          (StreamOf(OpenRangeHeader(S)) /\ S < Len(uploadFile.blocks))
            => /\ response'.code = 206
               /\ response'.contentRange
                    = ContentRange(S, Len(uploadFile.blocks) - 1,
                                   Len(uploadFile.blocks))
     /\ \A E \in 1..MaxFileLen :
          (StreamOf(SuffixRangeHeader(E)) /\ E < Len(uploadFile.blocks))
            => /\ response'.code = 206
               /\ response'.contentRange
                    = ContentRange(0, E, Len(uploadFile.blocks))
               /\ response'.contentLength = E + 1]_vars

(* ------------------------- server shutdown ------------------------------ *)

\* consumeVideoJobs callback, up to "await processor(job)": the channel has
\* no prefetch limit, so every message of video_processing is delivered
\* while earlier handler invocations are still running.
VideoDeliver ==
  /\ srv.pc = "up"
  /\ queueUp
  /\ bus["video_processing"].main # <<>>
  /\ srv' = [srv EXCEPT !.inflight =
               Append(@, Head(bus["video_processing"].main))]
  /\ bus' = Dequeue(bus, "video_processing", "main")
  /\ UNCHANGED <<session, redisUp, redisSet, tempFiles, chunkFiles,
                 uploadFile, posted, cw, aw, videos, assembled,
                 completedReturns, redisEverDown, deliveries, nextJob, cl,
                 expired, crashes, request, response, queueUp, bufferFull,
                 videoStatus, client>>

\* without its n-th element
RemoveAt(s, n) == SubSeq(s, 1, n - 1) \o SubSeq(s, n + 1, Len(s))

\* The rest of the callback for the n-th running invocation: processVideo
\* updates the row, then channel.ack.  On a closed channel ack throws, and
\* so does the sendToQueue of the catch block; the row stays updated.
VideoFinish(n, probeOk, thumbOk) ==
  /\ srv.pc # "exited"
  /\ n \in 1..Len(srv.inflight)
  /\ LET v == srv.inflight[n].job.videoId
     IN  videoStatus' =
           IF v \in 1..videos
             THEN PutFile(videoStatus, v,
                          ProcessVideoRow(VideoRow(v), uploadFile.exists,
                                          probeOk, thumbOk))
             ELSE videoStatus
  /\ srv' = [srv EXCEPT !.inflight = RemoveAt(@, n)]
  /\ UNCHANGED <<session, redisUp, redisSet, tempFiles, chunkFiles,
                 uploadFile, bus, posted, cw, aw, videos, assembled,
                 completedReturns, redisEverDown, deliveries, nextJob, cl,
                 expired, crashes, request, response, queueUp, bufferFull,
                 client>>

\* process.on("SIGTERM") / process.on("SIGINT"), up to the return of
\* queueService.close(): channel.close and connection.close run at once,
\* and the broker puts the unacked messages back at the head of the queue.
\* The handler invocations that are running go on.
Sigterm ==
  /\ srv.pc = "up"
  /\ srv' = [srv EXCEPT !.pc = "closed"]
  /\ queueUp' = FALSE
  /\ bus' = [bus EXCEPT !["video_processing"].main = srv.inflight \o @]
  /\ UNCHANGED <<session, redisUp, redisSet, tempFiles, chunkFiles,
                 uploadFile, posted, cw, aw, videos, assembled,
                 completedReturns, redisEverDown, deliveries, nextJob, cl,
                 expired, crashes, request, response, bufferFull,
                 videoStatus, client>>

\* server.close(() => process.exit(0)): the listener has closed and the
\* process ends, with it every handler invocation still running.
ServerExit ==
  /\ srv.pc = "closed"
  /\ srv' = [pc |-> "exited", inflight |-> <<>>]
  /\ UNCHANGED <<session, redisUp, redisSet, tempFiles, chunkFiles,
                 uploadFile, bus, posted, cw, aw, videos, assembled,
                 completedReturns, redisEverDown, deliveries, nextJob, cl,
                 expired, crashes, request, response, queueUp, bufferFull,
                 videoStatus, client>>

NextShutdown ==
  \/ CreateAndPublishVideo
  \/ VideoDeliver
  \/ \E n \in 1..MaxVideos, probeOk \in BOOLEAN, thumbOk \in BOOLEAN :
       VideoFinish(n, probeOk, thumbOk)
  \/ Sigterm
  \/ ServerExit

\* the server process with its video consumer, up to its exit
SpecShutdown == InitPostProcess /\ [][NextShutdown]_vars

\* C36: no message is in flight at a consumer when queueService.close runs
\* on SIGTERM or SIGINT: the worker has acked or republished it before, and
\* the process exits only after the close.
C36_ShutdownOrder ==
  [][/\ Sigterm => srv.inflight = <<>>
     /\ ServerExit => ~queueUp]_vars

(* ------------------------ resume during upload ------------------------- *)

\* POST /api/upload/resume/:sessionId arrives from caller c.
ResumeRequest(c) ==
  /\ request = NoRequest
  /\ request' = [route |-> "resume", caller |-> c]
  /\ UNCHANGED <<session, redisUp, redisSet, tempFiles, chunkFiles,
                 uploadFile, bus, posted, cw, aw, videos, assembled,
                 completedReturns, redisEverDown, deliveries, nextJob, cl,
                 expired, crashes, response, queueUp, bufferFull,
                 videoStatus, srv, client>>

NextResumeUpload ==
  \/ NextFault
  \/ \E c \in {"owner", "other"} : ResumeRequest(c)
  \/ ResumeUpload

\* the upload pipeline, on a volume whose reads may fail, with resume
\* requests at any moment
SpecResumeUpload == Init /\ [][NextResumeUpload]_vars

\* C37: in every reachable state a session row with status pending has an
\* empty uploaded_chunks set, also after resumeUpload on a failed session.
C37_PendingMeansNothingReceived ==
  (ValidRun /\ session.status = "pending") => session.uploaded_chunks = {}

\* C38: the intake handler leaks no temp blob: when uploadChunk rejects a
\* request, the temp file multer stored for it is not on disk once the
\* answer is sent.
C38_NoTempLeak ==
  [][\A n \in 1..MaxPosts :
       (/\ Len(posted) = n - 1
        /\ Len(posted') = n
        /\ posted'[n] = Rejected
        /\ response'.route = "chunk")
         => n \notin tempFiles'
    ]_vars

(* --------------------------- upload client ----------------------------- *)

MAX_CONCURRENT_UPLOADS == 2
RETRY_ATTEMPTS == 3

\* uploadChunkWithRetry(chunkIndex) up to its first await: attempts = 0,
\* activeUploads++ and the POST of uploadChunk is under way.  The promise is
\* pushed on uploadQueue, so chunk index k is uploadQueue[k + 1].
FirstAttempt == [pc |-> "posting", attempts |-> 0, posts |-> 1]

\* uploadQueue.push(uploadChunkWithRetry(i)) and i++
Launch(c) ==
  [c EXCEPT !.uploadQueue = Append(@, FirstAttempt),
            !.activeUploads = @ + 1,
            !.i = @ + 1]

\* Everything of the model except the client.
serverVars ==
  <<session, redisUp, redisSet, tempFiles, chunkFiles, uploadFile, bus,
    posted, cw, aw, videos, assembled, completedReturns, redisEverDown,
    deliveries, nextJob, cl, expired, crashes, request, response, queueUp,
    bufferFull, videoStatus, srv>>

\* initializeUpload resolved: sessionId and totalChunks are taken from the
\* answer and the file is sliced.
ClientInitialize(t) ==
  /\ client.pc = "init"
  /\ client' = [client EXCEPT !.pc = "loop", !.totalChunks = t]
  /\ UNCHANGED serverVars

\* initializeUpload rejected: the catch block rethrows.
ClientInitializeFails ==
  /\ client.pc = "init"
  /\ client' = [client EXCEPT !.pc = "rejected"]
  /\ UNCHANGED serverVars

\* One turn of the for loop up to its next await.  While activeUploads is
\* at the limit the loop sleeps 200 ms and tests again.  Chunk 0 is started
\* in the same turn; for i > 0 the loop first sleeps 300 ms.  After the last
\* chunk the call awaits Promise.all(uploadQueue).
LoopTurn ==
  /\ client.pc = "loop"
  /\ IF client.i >= client.totalChunks
       THEN client' = [client EXCEPT !.pc = "await"]
       ELSE /\ client.activeUploads < MAX_CONCURRENT_UPLOADS
            /\ client' = IF client.i > 0
                           THEN [client EXCEPT !.pc = "delay"]
                           ELSE Launch(client)
  /\ UNCHANGED serverVars

\* The 300 ms timer fired: uploadQueue.push(uploadChunkWithRetry(i)).
LoopLaunch ==
  /\ client.pc = "delay"
  /\ client' = [Launch(client) EXCEPT !.pc = "loop"]
  /\ UNCHANGED serverVars

\* The POST of chunk index k was answered 2xx: completedChunks++,
\* updateProgress reports status "uploading", activeUploads--, return.
PostOk(k) ==
  /\ k + 1 \in DOMAIN client.uploadQueue
  /\ client.uploadQueue[k + 1].pc = "posting"
  /\ client' = [client EXCEPT !.uploadQueue[k + 1].pc = "done",
                              !.completedChunks = @ + 1,
                              !.activeUploads = @ - 1,
                              !.status = "uploading"]
  /\ UNCHANGED serverVars

\* The POST of chunk index k failed: attempts++, activeUploads--, and
\* either the throw after RETRY_ATTEMPTS attempts or the backoff sleep.
PostFail(k) ==
  /\ k + 1 \in DOMAIN client.uploadQueue
  /\ client.uploadQueue[k + 1].pc = "posting"
  /\ LET attempts == client.uploadQueue[k + 1].attempts + 1
     IN  client' = [client EXCEPT
                      !.uploadQueue[k + 1].attempts = attempts,
                      !.uploadQueue[k + 1].pc =
                        IF attempts >= RETRY_ATTEMPTS THEN "failed"
                                                      ELSE "backoff",
                      !.activeUploads = @ - 1]
  /\ UNCHANGED serverVars

\* The backoff timer of chunk index k fired: the while loop of
\* uploadChunkWithRetry goes round, activeUploads++ and the next POST.
Retry(k) ==
  /\ k + 1 \in DOMAIN client.uploadQueue
  /\ client.uploadQueue[k + 1].pc = "backoff"
  /\ client' = [client EXCEPT !.uploadQueue[k + 1].pc = "posting",
                              !.uploadQueue[k + 1].posts = @ + 1,
                              !.activeUploads = @ + 1]
  /\ UNCHANGED serverVars

\* the chunk indices whose uploadChunkWithRetry promise is in state st
Chunks(st) ==
  {k \in 0..(Len(client.uploadQueue) - 1) : client.uploadQueue[k + 1].pc = st}

\* Promise.all of a caller that waits for every promise to settle and does
\* not look at the outcomes.
AwaitAllSettled ==
  /\ client.pc = "await"
  /\ Chunks("posting") \cup Chunks("backoff") = {}
  /\ client' = [client EXCEPT !.pc = "resolved", !.status = "completed"]
  /\ UNCHANGED serverVars

\* await Promise.all(uploadQueue): rejects as soon as one promise has
\* rejected; when all have resolved, onProgress reports status "completed"
\* with progress 100 and the call returns sessionId.
AwaitAll ==
  /\ client.pc = "await"
  /\ IF Chunks("failed") # {}
       THEN client' = [client EXCEPT !.pc = "rejected"]
       ELSE /\ Chunks("done") = 0..(client.totalChunks - 1)
            /\ client' = [client EXCEPT !.pc = "resolved",
                                        !.status = "completed"]
  /\ UNCHANGED serverVars

\* uploadFileInChunks is called; no server state is involved, each POST can
\* succeed or fail.
InitClient ==
  /\ PipelineAtRest
  /\ session = NoRow
  /\ request = NoRequest
  /\ response = NoResponse
  /\ srv = ServerUp
  /\ client = NotCalled

NextClient ==
  \/ \E t \in 1..MaxClientChunks : ClientInitialize(t)
  \/ ClientInitializeFails
  \/ LoopTurn
  \/ LoopLaunch
  \/ \E k \in 0..(MaxClientChunks - 1) :
       \/ PostOk(k)
       \/ PostFail(k)
       \/ Retry(k)
  \/ AwaitAll

\* one call of uploadFileInChunks
SpecClient == InitClient /\ [][NextClient]_vars

\* ... in which every timer fires and every HTTP request is answered or
\* fails.
SpecClientFair == SpecClient /\ WF_vars(NextClient)

\* C39: at no time are more than MAX_CONCURRENT_UPLOADS chunk POST requests
\* in flight: activeUploads <= 2 in every reachable state.
C39_UploadWindow ==
  /\ client.activeUploads <= MAX_CONCURRENT_UPLOADS
  /\ Cardinality(Chunks("posting")) <= MAX_CONCURRENT_UPLOADS


\* some chunk index has failed RETRY_ATTEMPTS times
SomeChunkFailed == Chunks("failed") # {}

\* C40: uploadFileInChunks resolves, and reports status completed, only if
\* every chunk index in [0, totalChunks) had a successful POST; each chunk
\* index is attempted at most RETRY_ATTEMPTS times; and if any index fails
\* RETRY_ATTEMPTS times the call rejects and never reports completed.
C40_ClientCompletion ==
  /\ []((client.pc = "resolved" \/ client.status = "completed") =>
          /\ client.pc = "resolved"
          /\ client.status = "completed"
          /\ Chunks("done") = 0..(client.totalChunks - 1)
          /\ client.completedChunks = client.totalChunks)
  /\ [](\A k \in 1..Len(client.uploadQueue) :
          /\ client.uploadQueue[k].posts <= RETRY_ATTEMPTS
          /\ client.uploadQueue[k].pc = "failed" =>
               client.uploadQueue[k].posts = RETRY_ATTEMPTS)
  /\ [](SomeChunkFailed =>
          client.pc # "resolved" /\ client.status # "completed")
  /\ (SomeChunkFailed ~> client.pc = "rejected")

\* A three-chunk upload that resolved after one chunk needed a retry.
C40_Witness ==
  /\ client.pc = "resolved"
  /\ client.status = "completed"
  /\ client.totalChunks = MaxClientChunks
  /\ \E k \in 1..Len(client.uploadQueue) : client.uploadQueue[k].posts = 2

====
